---- MODULE Spec2Model ----
(***************************************************************************)
(* Continuous-batching decode engine of saxml                              *)
(* (LMDecodeMethodContinuousBatching in                                    *)
(* saxml/server/pax/lm/servable_lm_model.py): the slot-indexed KV cache,   *)
(* the per-slot decode state, and the prefill / insert / generate state    *)
(* machine together with the precompile warm-up that                       *)
(* _register_for_input_shape runs.                                         *)
(*                                                                         *)
(* The forward pass itself (model.sample_prefill / sample_insert /         *)
(* sample_generate) is not part of the repository's sources; it is         *)
(* modelled from the design document (sections 4.1 - 4.3) and kept apart   *)
(* from the engine code in the operators SamplePrefill, SampleInsert,      *)
(* SampleGenerate and LeftAlign.  The engine splits the same PRNG key on   *)
(* every call, so sampling is a function of the weights and of the row;    *)
(* the weights are abstracted to the table next_token (the token that      *)
(* follows a token), and a key/value tensor row to the code KVOf(name,     *)
(* tok) of the token it was projected from, 0 being the zero tensor.       *)
(***************************************************************************)
EXTENDS Integers, Sequences, FiniteSets, TLC

\* ------------------------------------------------------------------ bounds
MaxSlots == 2          \* num_cache_slots ranges over 1..MaxSlots
MaxInputLen == 1       \* input_sequence_len ranges over 1..MaxInputLen
MaxDecodeSteps == 2    \* max_decode_steps ranges over 1..MaxDecodeSteps
MaxTok == 2            \* token ids 1..MaxTok, the last one being EOS
MaxCalls == 3          \* insert / generate calls issued after loading
NumLayers == 1         \* transformer layers

VARIABLES
  num_cache_slots,             \* DecodeHParams.decoder.num_cache_slots
  max_decode_steps,            \* DecodeHParams.decoder.max_decode_steps
  seqlen,                      \* DecodeHParams.decoder.seqlen
  precompile,                  \* model_state.precompile
  consolidate_rope_key_state,  \* tr_atten_tpl.consolidate_rope_key_state
  next_token,                  \* the model's weights: the token after a token
  decode_state,                \* self.decode_state
  decode_cache,                \* self.decode_cache
  mdl_vars,                    \* DECODE_CACHE collection of model_state.mdl_vars
  prefix_state,                \* the prefix state last returned by prefill
  pc,                          \* position in load / warm-up / serving
  loop_i,                      \* the warm-up's "for _ in range(2)" counter
  call,                        \* the last engine call: arguments and results
  recent,                      \* the last state-changing calls, oldest first
  snap,                        \* engine state just before the last insert
  written,                     \* outputs of the last init / insert / generate
  num_left_align,              \* generate() calls issued with the flag set
  q_cache,                     \* DECODE_CACHE collection of a QuantizedKVMQA
  q_src,                       \* the tensors the q_cache entries were made of
  layer_call,                  \* the last call of a layer / helper function
  method_call                  \* a ServableMethod call on the host side

cfgvars == <<num_cache_slots, max_decode_steps, seqlen, precompile,
             consolidate_rope_key_state, next_token>>
vars == <<num_cache_slots, max_decode_steps, seqlen, precompile,
          consolidate_rope_key_state, next_token, decode_state, decode_cache,
          mdl_vars,
          prefix_state, pc, loop_i, call, recent, snap, written,
          num_left_align, q_cache, q_src, layer_call, method_call>>

\* The engine's variables, and those of the layers checked on their own.
enginevars == <<num_cache_slots, max_decode_steps, seqlen, precompile,
                consolidate_rope_key_state, next_token, decode_state,
                decode_cache, mdl_vars, prefix_state, pc, loop_i, call,
                recent, snap, written, num_left_align>>
layervars == <<q_cache, q_src, layer_call, method_call>>
kvvars == <<q_cache, q_src, layer_call>>

\* ------------------------------------------------------------ configuration
input_sequence_len == seqlen - max_decode_steps
sql_len == input_sequence_len + max_decode_steps
Slots == 0 .. (num_cache_slots - 1)
Positions == 0 .. (sql_len - 1)
Layers == 1 .. NumLayers
Vocab == 1 .. MaxTok
EosId == MaxTok
PadId == 0
NestedMap == <<>>

Min(a, b) == IF a < b THEN a ELSE b

KVNames ==
  IF consolidate_rope_key_state
    THEN {"key_state", "value_state"}
    ELSE {"key_state", "value_state", "key_post_rotary_pos_emb"}

\* The row a layer projects from token tok; never the zero tensor.
KVOf(name, tok) ==
  CASE name = "key_state" -> 3 * tok + 1
    [] name = "value_state" -> 3 * tok + 2
    [] OTHER -> 3 * tok + 3

LogProbOf(tok) == 0 - tok

\* The step at which generate() raises the left-align flag.
Boundary == max_decode_steps + input_sequence_len - 1

\* --------------------------------------------------------- initialisation
init_decode_cache ==
  [time_step |-> input_sequence_len,
   transformer |->
     [l \in Layers |->
       [n \in KVNames |-> [s \in Slots |-> [p \in Positions |-> 0]]]]]

\* (mutant) output_ids starts at a token instead of zero
init_decode_state_token ==
  [start_step |-> input_sequence_len,
   step |-> input_sequence_len,
   per_sample_steps |-> [s \in Slots |-> input_sequence_len],
   temperature |-> [s \in Slots |-> 0],
   per_example_max_decode_steps |-> [s \in Slots |-> max_decode_steps],
   per_example_top_p |-> [s \in Slots |-> 1],
   per_example_top_k |-> [s \in Slots |-> 1],
   done |-> [s \in Slots |-> TRUE],
   has_eos |-> [s \in Slots |-> FALSE],
   decode_lengths |-> [s \in Slots |-> 0],
   prefix_lengths |-> [s \in Slots |-> 0],
   segment_pos |-> [s \in Slots |-> 0],
   output_ids |-> [s \in Slots |-> 1],
   logprobs |-> [s \in Slots |-> 0]]

init_decode_state ==
  [start_step |-> input_sequence_len,
   step |-> input_sequence_len,
   per_sample_steps |-> [s \in Slots |-> input_sequence_len],
   temperature |-> [s \in Slots |-> 0],
   per_example_max_decode_steps |-> [s \in Slots |-> max_decode_steps],
   per_example_top_p |-> [s \in Slots |-> 1],
   per_example_top_k |-> [s \in Slots |-> 1],
   done |-> [s \in Slots |-> TRUE],
   has_eos |-> [s \in Slots |-> FALSE],
   decode_lengths |-> [s \in Slots |-> 0],
   prefix_lengths |-> [s \in Slots |-> 0],
   segment_pos |-> [s \in Slots |-> 0],
   output_ids |-> [s \in Slots |-> 0],
   logprobs |-> [s \in Slots |-> 0]]

\* The per-slot arrays of the decode state.
SlotFields ==
  {"per_sample_steps", "temperature", "per_example_max_decode_steps",
   "per_example_top_p", "per_example_top_k", "done", "has_eos",
   "decode_lengths", "prefix_lengths", "segment_pos", "output_ids",
   "logprobs"}


\* ------------------------------------------------------------- KV writes
\* QuantizedKVMQA.extend_decode_state with quantize_kv off: the new row of
\* every batch entry is written at the one scalar time_step;
\* dynamic_update_slice clamps the start index into the tensor.
extend_decode_state(state, value, time_step) ==
  LET col == IF time_step < 0 THEN 0 ELSE Min(time_step, sql_len - 1)
  IN [s \in Slots |-> [p \in Positions |->
        IF p = col THEN value[s] ELSE state[s][p]]]

\* ------------------------------------------- forward pass (design document)
\* The set of prompts a request may carry: 1..input_sequence_len tokens,
\* none of them EOS.
Prompts ==
  UNION {[1 .. n -> Vocab \ {EosId}] : n \in 1 .. input_sequence_len}

\* The all-zero input of prefill_with_dummy.
DummyPrompt == [p \in 1 .. input_sequence_len |-> PadId]

PromptLen(prompt) == Cardinality({p \in DOMAIN prompt : prompt[p] # PadId})

\* model.sample_prefill: one forward pass over the prompt, batch size 1.
SamplePrefill(prompt, temp) ==
  [decode_state |->
     [start_step |-> input_sequence_len,
      step |-> input_sequence_len,
      per_sample_steps |-> input_sequence_len,
      temperature |-> temp,
      per_example_max_decode_steps |-> max_decode_steps,
      per_example_top_p |-> 1,
      per_example_top_k |-> 1,
      done |-> FALSE,
      has_eos |-> FALSE,
      decode_lengths |-> 0,
      prefix_lengths |-> PromptLen(prompt),
      segment_pos |-> PromptLen(prompt),
      output_ids |-> next_token[prompt[Len(prompt)]],
      logprobs |-> LogProbOf(next_token[prompt[Len(prompt)]])],
   decode_cache |->
     [time_step |-> input_sequence_len,
      transformer |->
        [l \in Layers |-> [n \in KVNames |-> [p \in Positions |->
           IF p < Len(prompt) THEN KVOf(n, prompt[p + 1]) ELSE 0]]]]]

\* model.sample_insert: the prefix's rows and scalars go to index slot.
SampleInsert(prefix_decode_state, prefix_decode_cache, ds, cache, slot) ==
  <<[f \in DOMAIN ds |->
       IF f \in SlotFields
         THEN [ds[f] EXCEPT ![slot] = prefix_decode_state[f]]
         ELSE ds[f]],
    [cache EXCEPT !.transformer =
       [l \in Layers |-> [n \in KVNames |->
          [cache.transformer[l][n] EXCEPT
             ![slot] = prefix_decode_cache.transformer[l][n]]]]]>>

\* The compaction the left-align flag asks for: the window is re-based by
\* shift columns (the amount is the forward pass's choice).
LeftAlign(ds, cache, shift) ==
  <<[ds EXCEPT !.step = @ - shift,
               !.per_sample_steps = [s \in Slots |-> @[s] - shift]],
    [cache EXCEPT !.transformer =
       [l \in Layers |-> [n \in KVNames |-> [s \in Slots |->
          [p \in Positions |->
             IF p + shift < sql_len
               THEN cache.transformer[l][n][s][p + shift]
               ELSE 0]]]]]>>

\* model.sample_generate: one batched decoding step over all slots.
SampleGenerate(ds, cache, align_decode_state, shift) ==
  LET a == IF align_decode_state THEN LeftAlign(ds, cache, shift)
                                 ELSE <<ds, cache>>
      ds0 == a[1]
      c0 == a[2]
      toks == [s \in Slots |-> next_token[ds0.output_ids[s]]]
      lens == [s \in Slots |->
                IF ds0.done[s] THEN ds0.decode_lengths[s]
                               ELSE ds0.decode_lengths[s] + 1]
  IN <<[ds0 EXCEPT
          !.step = @ + 1,
          !.per_sample_steps = [s \in Slots |-> @[s] + 1],
          !.segment_pos = [s \in Slots |-> @[s] + 1],
          !.output_ids = toks,
          !.logprobs = [s \in Slots |-> LogProbOf(toks[s])],
          !.has_eos = [s \in Slots |->
                         @[s] \/ (~ds0.done[s] /\ toks[s] = EosId)],
          !.decode_lengths = lens,
          !.done = [s \in Slots |->
                      \/ @[s]
                      \/ toks[s] = EosId
                      \/ lens[s] >= ds0.per_example_max_decode_steps[s]]],
       [time_step |-> ds0.step + 1,
        transformer |->
          [l \in Layers |-> [n \in KVNames |->
             extend_decode_state(c0.transformer[l][n],
                                 [s \in Slots |-> KVOf(n, ds0.output_ids[s])],
                                 ds0.step)]]]>>

\* Everything the engine holds for one slot.
SlotView(ds, cache, s) ==
  [fields |-> [f \in SlotFields |-> ds[f][s]],
   kv |-> [l \in Layers |-> [n \in KVNames |-> cache.transformer[l][n][s]]]]

\* ------------------------------------------------------------ engine methods
NoState == [decode_state |-> NestedMap, decode_cache |-> NestedMap]

Push(seq, e) ==
  LET r == Append(seq, e) IN IF Len(r) > 4 THEN Tail(r) ELSE r

Record(n, op, slot, left_align, step_read, ret) ==
  [n |-> n, op |-> op, slot |-> slot, left_align |-> left_align,
   step_read |-> step_read, ret |-> ret]

\* (mutant) the refresh left out: the device function runs on the cache the
\* model variables still hold.
refresh_mdl_vars_stale == mdl_vars' = mdl_vars

\* self.model_state.mdl_vars.update(self.decode_cache)
refresh_mdl_vars == mdl_vars' = decode_cache

\* (mutant) the boundary taken one step late.
left_align_decode_state_late(step) ==
  step = max_decode_steps + input_sequence_len

\* generate(): the test that sets left_align_decode_state.
left_align_decode_state(step) ==
  step = max_decode_steps + input_sequence_len - 1

\* init_decode_cache() and init_decode_state() of _register_for_input_shape.
init_engine ==
  /\ decode_cache' = init_decode_cache
  /\ mdl_vars' = init_decode_cache
  /\ decode_state' = init_decode_state
  /\ written' = [decode_state |-> init_decode_state,
                 decode_cache |-> init_decode_cache]

\* (mutant) prefill keeps its result as the engine's state.
prefill_into_engine(out) ==
  /\ decode_state' = [decode_state EXCEPT !.step = out.decode_state.step + 1]
  /\ decode_cache' = [decode_cache EXCEPT !.time_step = out.decode_state.step + 1]
  /\ mdl_vars' = mdl_vars
  /\ written' = written

\* prefill(inputs): out is what _prefill_device_fn returns; nothing of the
\* engine is assigned.
prefill(out) ==
  /\ decode_state' = decode_state
  /\ decode_cache' = decode_cache
  /\ mdl_vars' = mdl_vars
  /\ written' = written

\* (mutant) the engine-wide step is taken from the prefix state.
insert_resets_step(prefix, slot) ==
  /\ refresh_mdl_vars
  /\ LET out == SampleInsert(prefix.decode_state, prefix.decode_cache,
                             decode_state, mdl_vars', slot)
         ds == [out[1] EXCEPT !.step = prefix.decode_state.step]
     IN /\ written' = [decode_state |-> ds, decode_cache |-> out[2]]
        /\ decode_state' = ds
        /\ decode_cache' = out[2]

\* (mutant) the slot index is off by one.
insert_wrong_slot(prefix, slot) ==
  /\ refresh_mdl_vars
  /\ LET out == SampleInsert(prefix.decode_state, prefix.decode_cache,
                             decode_state, mdl_vars',
                             (slot + 1) % num_cache_slots)
     IN /\ written' = [decode_state |-> out[1], decode_cache |-> out[2]]
        /\ decode_state' = out[1]
        /\ decode_cache' = out[2]

\* (mutant) the new cache is not kept: self.decode_cache stays as it was.
insert_drops_cache(prefix, slot) ==
  /\ refresh_mdl_vars
  /\ LET out == SampleInsert(prefix.decode_state, prefix.decode_cache,
                             decode_state, mdl_vars', slot)
     IN /\ written' = [decode_state |-> out[1], decode_cache |-> out[2]]
        /\ decode_state' = out[1]
        /\ decode_cache' = decode_cache

\* insert(prefix_state, slot)
insert(prefix, slot) ==
  /\ refresh_mdl_vars
  /\ LET out == SampleInsert(prefix.decode_state, prefix.decode_cache,
                             decode_state, mdl_vars', slot)
     IN /\ written' = [decode_state |-> out[1], decode_cache |-> out[2]]
        /\ decode_state' = out[1]
        /\ decode_cache' = out[2]

\* (mutant) the new decode state is not kept: self.decode_state stays.
generate_drops_state(shift) ==
  /\ refresh_mdl_vars
  /\ LET out == SampleGenerate(decode_state, mdl_vars',
                               left_align_decode_state(decode_state.step),
                               shift)
     IN /\ written' = [decode_state |-> out[1], decode_cache |-> out[2]]
        /\ decode_state' = decode_state
        /\ decode_cache' = out[2]

\* generate()
generate(shift) ==
  /\ refresh_mdl_vars
  /\ LET out == SampleGenerate(decode_state, mdl_vars',
                               left_align_decode_state(decode_state.step),
                               shift)
     IN /\ written' = [decode_state |-> out[1], decode_cache |-> out[2]]
        /\ decode_state' = out[1]
        /\ decode_cache' = out[2]

\* The shifts the compaction may choose when the flag is set.
AlignShifts ==
  IF left_align_decode_state(decode_state.step)
    THEN 0 .. (decode_state.step - decode_state.start_step)
    ELSE {0}

\* --------------------------------------------------- calls, as observed
DoPrefill(prompt, temp, keep, n) ==
  LET out == SamplePrefill(prompt, temp)
  IN /\ prefill(out)
     /\ prefix_state' = IF keep THEN out ELSE prefix_state
     /\ call' = Record(n, "prefill", -1, FALSE, -1,
                       <<out.decode_state.logprobs,
                         out.decode_state.output_ids>>)
     /\ UNCHANGED <<recent, snap, num_left_align>>

DoInsert(slot, n) ==
  /\ insert(prefix_state, slot)
  /\ snap' = [decode_state |-> decode_state, decode_cache |-> decode_cache]
  /\ call' = Record(n, "insert", slot, FALSE, -1, <<>>)
  /\ recent' = Push(recent, [op |-> "insert", slot |-> slot])
  /\ UNCHANGED <<prefix_state, num_left_align>>

DoGenerate(n) ==
  \E shift \in AlignShifts :
    /\ generate(shift)
    /\ call' = Record(n, "generate", -1,
                      left_align_decode_state(decode_state.step),
                      decode_state.step,
                      <<written'.decode_state.logprobs,
                        written'.decode_state.output_ids,
                        decode_state'.done>>)
    /\ num_left_align' =
         IF left_align_decode_state(decode_state.step)
           THEN num_left_align + 1 ELSE num_left_align
    /\ recent' = Push(recent, [op |-> "generate", slot |-> -1])
    /\ UNCHANGED <<prefix_state, snap>>

\* ------------------------------------------------------------------ loading
Init ==
  /\ num_cache_slots \in 1 .. MaxSlots
  /\ max_decode_steps \in 1 .. MaxDecodeSteps
  /\ seqlen \in {max_decode_steps + n : n \in 1 .. MaxInputLen}
  /\ precompile \in BOOLEAN
  /\ consolidate_rope_key_state \in BOOLEAN
  /\ next_token \in [0 .. MaxTok -> Vocab]
  /\ decode_state = NestedMap
  /\ decode_cache = NestedMap
  /\ mdl_vars = NestedMap
  /\ prefix_state = NestedMap
  /\ pc = "constructed"
  /\ loop_i = 0
  /\ call = Record(0, "init", -1, FALSE, -1, <<>>)
  /\ recent = <<>>
  /\ snap = NoState
  /\ written = NoState
  /\ num_left_align = 0
  /\ q_cache = <<>>
  /\ q_src = <<>>
  /\ method_call = <<>>
  /\ layer_call = <<>>

\* _register_for_input_shape up to the warm-up.
Register ==
  /\ pc = "constructed"
  /\ init_engine
  /\ pc' = IF precompile THEN "w_prefill_1" ELSE "serving"
  /\ call' = Record(0, "register", -1, FALSE, -1, <<>>)
  /\ UNCHANGED <<cfgvars, layervars, prefix_state, loop_i, recent, snap, num_left_align>>

\* warm-up: self.prefill_with_dummy(), first with its result kept.
WarmupPrefill ==
  /\ pc \in {"w_prefill_1", "w_prefill_2"}
  /\ DoPrefill(DummyPrompt, 0, pc = "w_prefill_1", 0)
  /\ pc' = IF pc = "w_prefill_1" THEN "w_insert_1" ELSE "w_insert_2"
  /\ UNCHANGED <<cfgvars, layervars, loop_i>>

\* (mutant) the warm-up inserts into the last slot instead of slot 0.
WarmupInsert_last_slot ==
  /\ pc \in {"w_insert_1", "w_insert_2"}
  /\ DoInsert(num_cache_slots - 1, 0)
  /\ pc' = IF pc = "w_insert_1" THEN "w_gen_a" ELSE "serving"
  /\ UNCHANGED <<cfgvars, layervars, loop_i>>

\* warm-up: self.insert(prefix_state, slot_in_use)
WarmupInsert ==
  /\ pc \in {"w_insert_1", "w_insert_2"}
  /\ DoInsert(0, 0)
  /\ pc' = IF pc = "w_insert_1" THEN "w_gen_a" ELSE "serving"
  /\ UNCHANGED <<cfgvars, layervars, loop_i>>

\* warm-up: the two self.generate() of one loop iteration.
WarmupGenerate ==
  /\ pc \in {"w_gen_a", "w_gen_b"}
  /\ DoGenerate(0)
  /\ pc' = IF pc = "w_gen_a" THEN "w_set_step"
           ELSE IF loop_i = 0 THEN "w_gen_a" ELSE "w_prefill_2"
  /\ loop_i' = IF pc = "w_gen_b" THEN loop_i + 1 ELSE loop_i
  /\ UNCHANGED <<cfgvars, layervars>>

\* warm-up: self.decode_state.step = max_decode_steps + input_sequence_len - 1
WarmupSetStep ==
  /\ pc = "w_set_step"
  /\ decode_state' =
       [decode_state EXCEPT
          !.step = max_decode_steps + input_sequence_len - 1]
  /\ call' = Record(0, "assign_step", -1, FALSE, -1, <<>>)
  /\ pc' = "w_gen_b"
  /\ UNCHANGED <<cfgvars, layervars, decode_cache, mdl_vars, prefix_state, loop_i,
                 recent, snap, written, num_left_align>>

\* ------------------------------------------------------------------ serving
Serving == pc = "serving" /\ call.n < MaxCalls

Prefill ==
  /\ Serving
  /\ \E prompt \in Prompts : DoPrefill(prompt, 1, TRUE, call.n)
  /\ UNCHANGED <<cfgvars, layervars, pc, loop_i>>

PrefillWithDummy ==
  /\ Serving
  /\ DoPrefill(DummyPrompt, 0, TRUE, call.n)
  /\ UNCHANGED <<cfgvars, layervars, pc, loop_i>>

Insert ==
  /\ Serving
  /\ prefix_state # NestedMap
  /\ \E slot \in Slots : DoInsert(slot, call.n + 1)
  /\ UNCHANGED <<cfgvars, layervars, pc, loop_i>>

Generate ==
  /\ Serving
  /\ DoGenerate(call.n + 1)
  /\ UNCHANGED <<cfgvars, layervars, pc, loop_i>>

\* detokenize(tokens): the pad ids are dropped and the rest handed to the
\* tokenizer; ret is the number of ids kept per row.
Detokenize ==
  /\ Serving
  /\ \E row \in {<<1, PadId>>, <<1, 1>>} :
       call' = Record(call.n, "detokenize", -1, FALSE, -1,
                      <<Cardinality({k \in 1 .. 2 : row[k] # PadId})>>)
  /\ UNCHANGED <<cfgvars, layervars, decode_state, decode_cache, mdl_vars, prefix_state,
                 pc, loop_i, recent, snap, written, num_left_align>>

Next ==
  \/ Register
  \/ WarmupPrefill
  \/ WarmupInsert
  \/ WarmupGenerate
  \/ WarmupSetStep
  \/ Prefill
  \/ PrefillWithDummy
  \/ Insert
  \/ Generate
  \/ Detokenize

Spec == Init /\ [][Next]_vars


\* --------------------------------------------------------------- scenarios
\* Two scripted runs on a freshly initialised engine without warm-up:
\*   "seq_indep": prefill A, insert into slot 0, generate, prefill B,
\*                insert into slot 1, generate;
\*   "slot2":     num_cache_slots = 4, input_sequence_len = 8,
\*                max_decode_steps = 4: prefill a 3-token prompt, insert
\*                into slot 2, generate three times.
\* loop_i counts the script's steps already taken.
Script(name) ==
  IF name = "seq_indep"
    THEN <<[op |-> "register", slot |-> -1],
           [op |-> "prefill", slot |-> -1],
           [op |-> "insert", slot |-> 0],
           [op |-> "generate", slot |-> -1],
           [op |-> "prefill", slot |-> -1],
           [op |-> "insert", slot |-> 1],
           [op |-> "generate", slot |-> -1]>>
    ELSE <<[op |-> "register", slot |-> -1],
           [op |-> "prefill", slot |-> -1],
           [op |-> "insert", slot |-> 2],
           [op |-> "generate", slot |-> -1],
           [op |-> "generate", slot |-> -1],
           [op |-> "generate", slot |-> -1]>>

ScriptDone == pc \in {"seq_indep", "slot2"} /\ loop_i = Len(Script(pc))

ScriptAt(op) ==
  /\ pc \in {"seq_indep", "slot2"}
  /\ loop_i < Len(Script(pc))
  /\ Script(pc)[loop_i + 1].op = op

InitScenario ==
  /\ pc \in {"seq_indep", "slot2"}
  /\ num_cache_slots = IF pc = "slot2" THEN 4 ELSE 2
  /\ max_decode_steps \in
       IF pc = "slot2" THEN {4} ELSE 1 .. MaxDecodeSteps
  /\ seqlen \in
       IF pc = "slot2" THEN {12}
       ELSE {max_decode_steps + n : n \in 1 .. MaxInputLen}
  /\ precompile = FALSE
  /\ consolidate_rope_key_state \in BOOLEAN
  /\ next_token \in [0 .. MaxTok -> Vocab]
  /\ decode_state = NestedMap
  /\ decode_cache = NestedMap
  /\ mdl_vars = NestedMap
  /\ prefix_state = NestedMap
  /\ loop_i = 0
  /\ call = Record(0, "init", -1, FALSE, -1, <<>>)
  /\ recent = <<>>
  /\ snap = NoState
  /\ written = NoState
  /\ num_left_align = 0
  /\ q_cache = <<>>
  /\ q_src = <<>>
  /\ method_call = <<>>
  /\ layer_call = <<>>

ScenRegister ==
  /\ ScriptAt("register")
  /\ init_engine
  /\ call' = Record(0, "register", -1, FALSE, -1, <<>>)
  /\ loop_i' = loop_i + 1
  /\ UNCHANGED <<cfgvars, layervars, pc, prefix_state, recent, snap, num_left_align>>

ScenPrefill ==
  /\ ScriptAt("prefill")
  /\ \E prompt \in Prompts :
       /\ pc = "slot2" => Len(prompt) = 3
       /\ DoPrefill(prompt, 1, TRUE, 0)
  /\ loop_i' = loop_i + 1
  /\ UNCHANGED <<cfgvars, layervars, pc>>

ScenInsert ==
  /\ ScriptAt("insert")
  /\ DoInsert(Script(pc)[loop_i + 1].slot, 0)
  /\ loop_i' = loop_i + 1
  /\ UNCHANGED <<cfgvars, layervars, pc>>

ScenGenerate ==
  /\ ScriptAt("generate")
  /\ DoGenerate(0)
  /\ loop_i' = loop_i + 1
  /\ UNCHANGED <<cfgvars, layervars, pc>>

NextScenario ==
  \/ ScenRegister
  \/ ScenPrefill
  \/ ScenInsert
  \/ ScenGenerate

SpecScenario == InitScenario /\ [][NextScenario]_vars

\* ------------------------------------------------------------------ claims
\* A step of the engine that is the call op (a serving insert / generate
\* counts in call.n, a warm-up step moves pc, a scripted step moves loop_i).
StepOf(op) ==
  /\ call'.op = op
  /\ <<call.n, pc, loop_i>> # <<call'.n, pc', loop_i'>>

Loaded == pc # "constructed" /\ decode_state # NestedMap

\* C1: every generate() call is issued with the left-align flag set if and
\* only if the engine-wide step read at the start of the call equals
\* max_decode_steps + input_sequence_len - 1; the flag is never set while
\* step is smaller than that.
C1_FlagIffBoundary ==
  call.op = "generate" =>
    /\ call.left_align <=> (call.step_read = Boundary)
    /\ call.step_read < Boundary => ~call.left_align

\* A serving generate() that was issued with the flag set, and the engine
\* has also issued one with the flag clear at a smaller step.
C1_Witness ==
  /\ pc = "serving"
  /\ call.op = "generate"
  /\ call.n > 1
  /\ call.left_align
  /\ call.step_read = Boundary

\* C2 (as claimed): over the engine's lifetime the flag fires once only:
\* at no time have two generate() calls been issued with the flag set.
C2_FiresOnce == num_left_align <= 1

\* C2 (amended): the flag fires at every generate() that starts at the
\* boundary, as often as that happens; the precompile warm-up alone issues
\* at least two generate() calls with the flag set before serving begins.
C2_WarmupFiresTwice ==
  /\ (pc = "serving" /\ precompile) => num_left_align >= 2
  /\ (pc = "serving" /\ ~precompile /\ call.n = 0) => num_left_align = 0

C2_Witness ==
  /\ pc = "serving"
  /\ precompile
  /\ call.n = 0
  /\ num_left_align = 2

\* C3: one generate() call advances every slot by one position in
\* lock-step, the slots that are already done included: the whole decode
\* state goes through one batched step, the engine's decode state and KV
\* cache become that step's outputs, and the call returns (logprobs,
\* output_ids, done) of the new state, one entry per slot.
C3_GenerateAdvancesAll ==
  [][StepOf("generate") =>
      /\ \A s \in Slots :
           /\ decode_state'.segment_pos[s] = decode_state.segment_pos[s] + 1
           /\ decode_state'.per_sample_steps[s]
                - decode_state.per_sample_steps[s]
                = decode_state'.step - decode_state.step
           /\ ~call'.left_align =>
                decode_state'.per_sample_steps[s]
                  = decode_state.per_sample_steps[s] + 1
           /\ \A l \in Layers : \A n \in KVNames :
                decode_cache'.transformer[l][n][s][
                    Min(decode_state'.step - 1, sql_len - 1)]
                  = KVOf(n, decode_state.output_ids[s])
      /\ \E shift \in AlignShifts :
           <<decode_state', decode_cache'>>
             = SampleGenerate(decode_state, decode_cache,
                              call'.left_align, shift)
      /\ call'.ret = <<decode_state'.logprobs, decode_state'.output_ids,
                       decode_state'.done>>
      /\ \A k \in 1 .. 3 : DOMAIN call'.ret[k] = Slots]_vars

\* A free slot (done since initialisation, never inserted into) that a
\* generate() has advanced together with an active one.
C3_Witness ==
  /\ call.op = "generate"
  /\ \E s, t \in Slots :
       /\ decode_state.done[s]
       /\ decode_state.prefix_lengths[s] = 0
       /\ decode_state.segment_pos[s] > 0
       /\ decode_state.prefix_lengths[t] > 0
       /\ ~decode_state.done[t]

\* The engine is right after a generate() that followed insert(prefix, k).
InsertThenGenerate ==
  /\ call.op = "generate"
  /\ Len(recent) >= 2
  /\ recent[Len(recent)].op = "generate"
  /\ recent[Len(recent) - 1].op = "insert"

InsertedSlot == recent[Len(recent) - 1].slot

\* What C4 speaks of: a slot's output_ids, decode_lengths and KV rows.
SlotEntries(ds, cache, s) ==
  [output_ids |-> ds.output_ids[s],
   decode_lengths |-> ds.decode_lengths[s],
   kv |-> [l \in Layers |-> [n \in KVNames |-> cache.transformer[l][n][s]]]]

\* C4 (as claimed): insert(prefix_state, k) followed by one generate()
\* changes only slot k's entries of output_ids, decode_lengths and the KV
\* cache; every other slot's entries are what they were before the insert.
C4_PairChangesOnlySlotK ==
  InsertThenGenerate =>
    \A j \in Slots \ {InsertedSlot} :
      SlotEntries(decode_state, decode_cache, j)
        = SlotEntries(snap.decode_state, snap.decode_cache, j)

\* C4 (amended): insert(prefix_state, k) alone changes only slot k: every
\* other slot is as it was before the insert. The generate() that follows
\* advances every slot: each other slot moves one position and gets one new
\* KV row, written at the step the generate() started from.
C4_InsertChangesOnlySlotK ==
  /\ call.op = "insert" =>
       /\ \A j \in Slots \ {call.slot} :
            SlotView(decode_state, decode_cache, j)
              = SlotView(snap.decode_state, snap.decode_cache, j)
       /\ decode_state.step = snap.decode_state.step
  /\ InsertThenGenerate =>
       \A j \in Slots \ {InsertedSlot} :
         /\ decode_state.segment_pos[j]
              = snap.decode_state.segment_pos[j] + 1
         /\ \A l \in Layers : \A n \in KVNames :
              decode_cache.transformer[l][n][j][
                  Min(decode_state.step - 1, sql_len - 1)]
                = KVOf(n, snap.decode_state.output_ids[j])

\* insert into slot k, then generate, while another slot was decoding.
C4_Witness ==
  /\ InsertThenGenerate
  /\ \E j \in Slots \ {InsertedSlot} :
       /\ ~snap.decode_state.done[j]
       /\ snap.decode_state.prefix_lengths[j] > 0
       /\ SlotEntries(decode_state, decode_cache, j)
            # SlotEntries(snap.decode_state, snap.decode_cache, j)

\* C5 (as claimed): after insert(A, 0); generate(); insert(B, 1);
\* generate(), slot 0's decode-state entries and KV rows equal what they
\* were right after the first generate().
C5_Slot0AsAfterFirstGenerate ==
  (pc = "seq_indep" /\ ScriptDone) =>
    SlotView(decode_state, decode_cache, 0)
      = SlotView(snap.decode_state, snap.decode_cache, 0)

\* C5 (amended): the insert of B into slot 1 does not alter slot 0, which
\* is then what it was right after the first generate(); the second
\* generate() does alter it: it advances slot 0 by one more position, as it
\* advances every slot.
C5_InsertKeepsSlot0 ==
  /\ (pc = "seq_indep" /\ loop_i = 6) =>
       SlotView(decode_state, decode_cache, 0)
         = SlotView(snap.decode_state, snap.decode_cache, 0)
  /\ (pc = "seq_indep" /\ ScriptDone) =>
       /\ decode_state.segment_pos[0]
            = snap.decode_state.segment_pos[0] + 1
       /\ SlotView(decode_state, decode_cache, 0)
            # SlotView(snap.decode_state, snap.decode_cache, 0)

\* The script has run to its end with slot 0 still decoding when B went in.
C5_Witness ==
  /\ pc = "seq_indep"
  /\ ScriptDone
  /\ ~snap.decode_state.done[0]
  /\ decode_state.prefix_lengths[1] > 0

C7_InsertOverwritesSlot ==
  call.op = "insert" =>
    /\ \A f \in SlotFields :
         decode_state[f][call.slot] = prefix_state.decode_state[f]
    /\ \A l \in Layers : \A n \in KVNames :
         decode_cache.transformer[l][n][call.slot]
           = prefix_state.decode_cache.transformer[l][n]
    /\ ~decode_state.done[call.slot]

\* An insert over a finished occupant that had written decode-time KV rows,
\* none of which is left.
C7_Witness ==
  /\ call.op = "insert"
  /\ snap.decode_state.prefix_lengths[call.slot] > 0
  /\ snap.decode_state.done[call.slot]
  /\ \E p \in Positions :
       /\ p >= input_sequence_len
       /\ snap.decode_cache.transformer[1]["key_state"][call.slot][p] # 0
       /\ decode_cache.transformer[1]["key_state"][call.slot][p] = 0

\* C8: a slot that is done stays done across generate(), prefill() and
\* inserts into other slots: the only step that makes a done slot active is
\* an insert that targets it.
C8_OnlyInsertActivates ==
  [][\A s \in 0 .. (MaxSlots + 2) :
       (Loaded /\ s \in Slots /\ decode_state.done[s]
          /\ ~decode_state'.done[s])
         => (StepOf("insert") /\ call'.slot = s)]_vars

\* A finished slot that generate() has since run over, still done, while
\* another slot was inserted into.
C8_Witness ==
  /\ pc = "serving"
  /\ \E s \in Slots :
       /\ decode_state.done[s]
       /\ decode_state.prefix_lengths[s] > 0
       /\ decode_state.segment_pos[s] - decode_state.prefix_lengths[s]
            > decode_state.decode_lengths[s]

EngineState == <<decode_state, decode_cache>>

\* C9 (as claimed): prefill, prefill_with_dummy and detokenize leave the
\* decode state and the KV cache unchanged; once they are initialised, the
\* only steps that change them are insert and generate.
C9_OnlyInsertGenerateMutate ==
  [][(Loaded /\ EngineState' # EngineState)
       => (StepOf("insert") \/ StepOf("generate"))]_vars

\* C9 (amended): prefill, prefill_with_dummy and detokenize leave them
\* unchanged; once they are initialised, the only steps that change them
\* are insert, generate, and the precompile warm-up's own assignment to
\* decode_state.step, which changes that one field before serving starts.
C9_MutationPoints ==
  [][(Loaded /\ EngineState' # EngineState)
       => \/ StepOf("insert")
          \/ StepOf("generate")
          \/ /\ pc = "w_set_step"
             /\ call'.op = "assign_step"
             /\ decode_cache' = decode_cache
             /\ decode_state'
                  = [decode_state EXCEPT !.step = decode_state'.step]]_vars

\* A serving prefill of a real prompt on an engine that is no longer in its
\* initial state, which the prefill left as the last insert / generate
\* wrote it.
C9_Witness ==
  /\ pc = "serving"
  /\ call.op = "prefill"
  /\ call.n >= 1
  /\ prefix_state.decode_state.prefix_lengths > 0
  /\ decode_state # init_decode_state
  /\ decode_state = written.decode_state
  /\ decode_cache = written.decode_cache

\* C10: every insert and generate runs on the engine's current decode
\* cache (the model variables are refreshed from it first) and decode
\* state, and what it writes is what the engine then holds; in a serving
\* sequence what a call reads is exactly what the preceding insert /
\* generate, or the initialisation, wrote.
C10_ReadsWhatWasWritten ==
  [][(StepOf("insert") \/ StepOf("generate")) =>
       /\ mdl_vars' = decode_cache
       /\ written' = [decode_state |-> decode_state',
                      decode_cache |-> decode_cache']
       /\ StepOf("insert") =>
            <<decode_state', decode_cache'>>
              = SampleInsert(prefix_state.decode_state,
                             prefix_state.decode_cache,
                             decode_state, decode_cache, call'.slot)
       /\ StepOf("generate") =>
            \E shift \in AlignShifts :
              <<decode_state', decode_cache'>>
                = SampleGenerate(decode_state, decode_cache,
                                 left_align_decode_state(decode_state.step),
                                 shift)
       /\ pc = "serving" =>
            /\ decode_state = written.decode_state
            /\ decode_cache = written.decode_cache]_vars

\* A serving generate() right after an insert: the model variables hold the
\* cache that insert wrote, which is no longer the engine's.
C10_Witness ==
  /\ pc = "serving"
  /\ InsertThenGenerate
  /\ call.n >= 2
  /\ mdl_vars # decode_cache
  /\ decode_cache = written.decode_cache

\* ------------------------------------------------- quantized KV cache layer
\* QuantizedKVMQA of saxml/server/pax/lm/layers.py with quantize_kv = True.
\* A tensor is a function from its time positions to the vectors of its
\* last dimension; a real number is an exact fraction <<n, d>>, d > 0, in
\* lowest terms, <<0, 0>> standing for the result of a division by zero.
MaxAbs == 5            \* tensor elements range over -MaxAbs .. MaxAbs
HeadDim == 2           \* size of the last dimension
QLen == 2              \* time positions of a cached tensor

Abs(x) == IF x < 0 THEN 0 - x ELSE x

RECURSIVE GCD(_, _)
GCD(a, b) == IF b = 0 THEN a ELSE GCD(b, a % b)

Frac(n, d) ==
  IF d = 0 THEN <<0, 0>>
  ELSE IF n = 0 THEN <<0, 1>>
  ELSE LET g == GCD(Abs(n), Abs(d))
           sgn == IF d < 0 THEN 0 - 1 ELSE 1
       IN <<(sgn * n) \div g, (sgn * d) \div g>>

FracLe(a, b) == a[1] * b[2] <= b[1] * a[2]

\* jnp.divide
Divide(a, b) == Frac(a[1] * b[2], a[2] * b[1])

\* jnp.multiply of an int8 value and a scale
Multiply(q, scale) == Frac(q * scale[1], scale[2])

\* jnp.max(jnp.abs(t), axis=[-1], keepdims=True) for one vector
MaxAbsOf(v) ==
  LET a == {Frac(Abs(v[k][1]), v[k][2]) : k \in DOMAIN v}
  IN CHOOSE m \in a : \A x \in a : FracLe(x, m)

\* (mutant) a zero scale is not replaced by 1.0
ScaleOf_zero_kept(v) == Divide(MaxAbsOf(v), <<127, 1>>)

\* scale = bound / 127.0; scale = jnp.where(scale == 0.0, 1.0, scale)
ScaleOf(v) ==
  LET scale == Divide(MaxAbsOf(v), <<127, 1>>)
  IN IF scale[1] = 0 THEN <<1, 1>> ELSE scale

\* (mutant) rounding towards minus infinity
Round_floor(x) == IF x[2] = 0 THEN 0 ELSE x[1] \div x[2]

\* jnp.round: to the nearest integer, a tie to the even one
Round(x) ==
  IF x[2] = 0 THEN 0
  ELSE LET f == x[1] \div x[2]
           r == x[1] - f * x[2]
       IN IF 2 * r < x[2] THEN f
          ELSE IF 2 * r > x[2] THEN f + 1
          ELSE IF f % 2 = 0 THEN f ELSE f + 1

Clip(x, lo, hi) == IF x < lo THEN lo ELSE IF x > hi THEN hi ELSE x

\* astype(jnp.int8)
Int8(x) == ((x + 128) % 256) - 128

\* reduce_last_dim_for_quantization(t): the int8 tensor and its scales
reduce_last_dim_for_quantization(t) ==
  <<[i \in DOMAIN t |->
       [k \in DOMAIN t[i] |->
          Int8(Clip(Round(Divide(t[i][k], ScaleOf(t[i]))),
                    0 - 127, 127))]],
    [i \in DOMAIN t |-> ScaleOf(t[i])]>>

\* What get_decode_state returns for a quantized tensor and its scales.
Dequantize(q_value, q_scale) ==
  [i \in DOMAIN q_value |->
     [k \in DOMAIN q_value[i] |-> Multiply(q_value[i][k], q_scale[i])]]

\* The engine's variables while a layer is exercised on its own.
EngineIdle ==
  /\ num_cache_slots = 1
  /\ max_decode_steps = 1
  /\ seqlen = 2
  /\ precompile = FALSE
  /\ consolidate_rope_key_state = FALSE
  /\ next_token = [t \in 0 .. MaxTok |-> 1]
  /\ decode_state = NestedMap
  /\ decode_cache = NestedMap
  /\ mdl_vars = NestedMap
  /\ prefix_state = NestedMap
  /\ pc = "layers"
  /\ loop_i = 0
  /\ call = Record(0, "init", 0 - 1, FALSE, 0 - 1, <<>>)
  /\ recent = <<>>
  /\ snap = NoState
  /\ written = NoState
  /\ num_left_align = 0

Vectors(maxabs) ==
  [1 .. HeadDim -> {<<n, 1>> : n \in (0 - maxabs) .. maxabs}]

\* One call of reduce_last_dim_for_quantization on a one-row tensor, and the
\* multiplication get_decode_state would do on its result.
Quantize ==
  /\ layer_call.op = "input"
  /\ LET v == layer_call.t
         out == reduce_last_dim_for_quantization(<<v>>)
     IN layer_call' =
            [op |-> "reduce_last_dim_for_quantization",
             t |-> v,
             q |-> out[1][1],
             scale |-> out[2][1],
             divisor |-> ScaleOf(v),
             dequantized |-> Dequantize(out[1], out[2])[1]]
  /\ UNCHANGED <<enginevars, q_cache, q_src, method_call>>

InitReduce ==
  /\ EngineIdle
  /\ q_cache = <<>>
  /\ q_src = <<>>
  /\ method_call = <<>>
  /\ layer_call \in {[op |-> "input", t |-> v] : v \in Vectors(MaxAbs)}

SpecReduce == InitReduce /\ [][Quantize]_vars

CacheMaxAbs == 1       \* tensors written to the cache: 0 .. CacheMaxAbs

CACHE_SCALE_SUFFIX == "_scale"
StateNames == {"key_state", "value_state"}
ScaleName(name) == name \o CACHE_SCALE_SUFFIX
QPositions == 0 .. (QLen - 1)
CacheVectors == [1 .. HeadDim -> {<<n, 1>> : n \in 0 .. CacheMaxAbs}]
Tensors == [QPositions -> CacheVectors]
ZeroVector == [k \in 1 .. HeadDim |-> <<0, 1>>]

\* self.put_variable(DECODE_CACHE, name, value)
put_variable(cache, name, value) ==
  [n \in (DOMAIN cache) \cup {name} |->
     IF n = name THEN value ELSE cache[n]]

\* jax.lax.dynamic_update_slice of one time position: the index is clamped.
dynamic_update_slice(state, row, time_step) ==
  [state EXCEPT ![Clip(time_step, 0, QLen - 1)] = row]

\* QuantizedKVMQA.update_decode_state(name, state); mutable is
\* is_mutable_collection(DECODE_CACHE). The result is the collection after
\* the call.
update_decode_state(cache, name, state, mutable) ==
  IF ~mutable THEN cache
  ELSE LET r == reduce_last_dim_for_quantization(state)
       IN put_variable(put_variable(cache, name, r[1]),
                       ScaleName(name), r[2])

\* QuantizedKVMQA.get_decode_state(name)
get_decode_state(cache, name) ==
  Dequantize(cache[name], cache[ScaleName(name)])

\* (mutant) the new row is stored, its scale is not.
extend_decode_state_stale_scale(cache, name, value, time_step, mutable) ==
  LET r == reduce_last_dim_for_quantization(<<value>>)
      new_state == dynamic_update_slice(cache[name], r[1][1], time_step)
  IN IF mutable THEN put_variable(cache, name, new_state) ELSE cache

\* QuantizedKVMQA.extend_decode_state(name, value, time_step, time_dim) with
\* quantize_kv: the collection after the call.
extend_decode_state_quantized(cache, name, value, time_step, mutable) ==
  LET r == reduce_last_dim_for_quantization(<<value>>)
      new_state == dynamic_update_slice(cache[name], r[1][1], time_step)
      new_scale == dynamic_update_slice(cache[ScaleName(name)], r[2][1],
                                        time_step)
  IN IF mutable
       THEN put_variable(put_variable(cache, name, new_state),
                         ScaleName(name), new_scale)
       ELSE cache

\* The decode-state transforms applied along the time dimension.
TransformFns == {"shift_left", "shift_right"}
transform_fn(fn, state) ==
  [p \in QPositions |->
     LET from == IF fn = "shift_left" THEN p + 1 ELSE p - 1
     IN IF from \in QPositions THEN state[from] ELSE ZeroVector]

\* QuantizedKVMQA.transform_decode_state(transform_fn)
transform_decode_state(cache, fn, mutable) ==
  LET names == {n \in DOMAIN cache :
                  ~(\E m \in StateNames : n = ScaleName(m))}
      new_state(n) == transform_fn(fn, get_decode_state(cache, n))
      written_to(n) == update_decode_state(cache, n, new_state(n), mutable)
  IN [n \in DOMAIN cache |->
        IF n \in names THEN written_to(n)[n]
        ELSE IF \E m \in names : n = ScaleName(m)
          THEN written_to(CHOOSE m \in names : n = ScaleName(m))[n]
          ELSE cache[n]]

CacheCall(op, name, mutable) ==
  [op |-> op, name |-> name, mutable |-> mutable]

UpdateDecodeState ==
  /\ \E name \in StateNames, state \in Tensors, mutable \in BOOLEAN :
       /\ q_cache' = update_decode_state(q_cache, name, state, mutable)
       /\ q_src' = IF mutable THEN put_variable(q_src, name, state)
                   ELSE q_src
       /\ layer_call' = CacheCall("update_decode_state", name, mutable)
  /\ UNCHANGED <<enginevars, method_call>>

\* get_variable returns None for a name that was never written, and the
\* method stops at its assert.
ExtendDecodeState ==
  /\ \E name \in StateNames, value \in CacheVectors,
        time_step \in (0 - 1) .. QLen, mutable \in BOOLEAN :
       IF name \in DOMAIN q_cache /\ ScaleName(name) \in DOMAIN q_cache
         THEN /\ q_cache' = extend_decode_state_quantized(
                              q_cache, name, value, time_step, mutable)
              /\ q_src' =
                   IF mutable
                     THEN [q_src EXCEPT
                             ![name] = dynamic_update_slice(@, value,
                                                            time_step)]
                     ELSE q_src
              /\ layer_call' = CacheCall("extend_decode_state", name,
                                         mutable)
         ELSE /\ UNCHANGED <<q_cache, q_src>>
              /\ layer_call' = CacheCall("AssertionError", name, mutable)
  /\ UNCHANGED <<enginevars, method_call>>

TransformDecodeState ==
  /\ \E fn \in TransformFns, mutable \in BOOLEAN :
       /\ q_cache' = transform_decode_state(q_cache, fn, mutable)
       /\ q_src' =
            IF mutable
              THEN [n \in DOMAIN q_src |->
                      transform_fn(fn, get_decode_state(q_cache, n))]
              ELSE q_src
       /\ layer_call' = CacheCall("transform_decode_state", fn, mutable)
  /\ UNCHANGED <<enginevars, method_call>>

InitQuant ==
  /\ EngineIdle
  /\ q_cache = <<>>
  /\ q_src = <<>>
  /\ method_call = <<>>
  /\ layer_call = <<>>

NextQuant ==
  \/ UpdateDecodeState
  \/ ExtendDecodeState
  \/ TransformDecodeState

SpecQuant == InitQuant /\ [][NextQuant]_vars

\* The cache entries of a name are the pair its source tensor quantizes to.
PairedWithScale(name) ==
  /\ name \in DOMAIN q_cache <=> ScaleName(name) \in DOMAIN q_cache
  /\ name \in DOMAIN q_cache <=> name \in DOMAIN q_src
  /\ name \in DOMAIN q_cache =>
       \A p \in QPositions :
         LET r == reduce_last_dim_for_quantization(<<q_src[name][p]>>)
         IN /\ q_cache[name][p] = r[1][1]
            /\ q_cache[ScaleName(name)][p] = r[2][1]

IsCacheCall(c) ==
  c # <<>> /\ c.op \in {"update_decode_state", "extend_decode_state",
                        "transform_decode_state", "AssertionError"}

\* C11: with quantize_kv, update_decode_state, extend_decode_state and
\* transform_decode_state write a quantized tensor and its "_scale" tensor
\* together or write neither: at every position of every cache entry the
\* stored scale is the one computed for the int8 values stored there, and a
\* call on a collection that is not mutable writes nothing.
C11_ScalePairedWithValue ==
  /\ [](\A name \in StateNames : PairedWithScale(name))
  /\ [][(IsCacheCall(layer_call') /\ ~layer_call'.mutable)
          => q_cache' = q_cache]_vars

\* Both tensors cached, one of them holding rows with different scales after
\* extend_decode_state replaced a row.
C11_Witness ==
  /\ IsCacheCall(layer_call)
  /\ layer_call.op = "extend_decode_state"
  /\ layer_call.mutable
  /\ StateNames \subseteq DOMAIN q_cache
  /\ \E p, r \in QPositions :
       /\ q_cache[ScaleName(layer_call.name)][p] = <<1, 127>>
       /\ q_cache[ScaleName(layer_call.name)][r] = <<1, 1>>
       /\ \E k \in 1 .. HeadDim : q_cache[layer_call.name][p][k] = 127

IsReduceCall == layer_call.op = "reduce_last_dim_for_quantization"

\* C12: for (q, scale) = reduce_last_dim_for_quantization(t) every element
\* of q is an integer in [-127, 127], q * scale differs from t by at most
\* scale / 2 in every element, and scale is max(|t|) / 127 over the last
\* dimension, or 1.0 if that maximum is 0.
C12_RoundTripWithinHalfScale ==
  IsReduceCall =>
    LET t == layer_call.t
        scale == layer_call.scale
        m == CHOOSE x \in {Abs(t[k][1]) : k \in DOMAIN t} :
               \A k \in DOMAIN t : Abs(t[k][1]) <= x
    IN /\ scale = IF m = 0 THEN <<1, 1>> ELSE Frac(m, 127)
       /\ \A k \in DOMAIN t :
            LET d == layer_call.dequantized[k]
            IN /\ layer_call.q[k] \in (0 - 127) .. 127
               /\ d[2] > 0
               /\ 2 * Abs(d[1] - t[k][1] * d[2]) * scale[2]
                    <= scale[1] * d[2]

\* An element that quantizes at a tie: its error is exactly scale / 2.
C12_Witness ==
  /\ IsReduceCall
  /\ \E k \in DOMAIN layer_call.t :
       LET d == layer_call.dequantized[k]
       IN /\ layer_call.t[k][1] # 0
          /\ d[2] > 0
          /\ 2 * Abs(d[1] - layer_call.t[k][1] * d[2]) * layer_call.scale[2]
               = layer_call.scale[1] * d[2]

\* C13: quantizing a vector that is 0 in every element is no error: the
\* scale is replaced by exactly 1.0, every quantized value is 0 and the
\* dequantized vector is all zero; for no input is the divisor zero.
C13_ZeroRangeUnitScale ==
  IsReduceCall =>
    /\ layer_call.divisor[1] # 0
    /\ layer_call.divisor[2] # 0
    /\ (\A k \in DOMAIN layer_call.t : layer_call.t[k][1] = 0) =>
         /\ layer_call.scale = <<1, 1>>
         /\ \A k \in DOMAIN layer_call.t :
              /\ layer_call.q[k] = 0
              /\ layer_call.dequantized[k] = <<0, 1>>

C13_Witness ==
  /\ IsReduceCall
  /\ \A k \in DOMAIN layer_call.t : layer_call.t[k][1] = 0
  /\ layer_call.scale = <<1, 1>>
  /\ layer_call.divisor = <<1, 1>>

\* ------------------------------------------------ one-step attention kernels
\* ChunkedMQA._dot_atten_one_step_from_qkv, ChunkedMHA._dot_atten_one_step
\* and MXUDotProductAttention._dot_atten_one_step of layers.py, for one head
\* with head dimension 1 and a query of 1, so that the logit of a position
\* is its key.  exp is taken to the base 2; a masked logit is the large
\* negative number, whose exp is 0 next to any logit that is not masked.
MaxSplit == 2          \* chunked_one_step_attn_num_seq_split over 2..MaxSplit
MaxChunkWidth == 2     \* chunk width w of the enumerated caches
MaxBatch == 4          \* query / cache batch sizes range over 1..MaxBatch

RECURSIVE Pow2(_)
Pow2(n) == IF n <= 0 THEN 1 ELSE 2 * Pow2(n - 1)

RECURSIVE SumOver(_, _)
SumOver(f, S) ==
  IF S = {} THEN 0
  ELSE LET x == CHOOSE y \in S : TRUE IN f[x] + SumOver(f, S \ {x})

\* (mutant) the mask not applied: a masked position keeps its weight
Softmax_unmasked(logits, masked, extra_logit) ==
  LET num == [i \in DOMAIN logits |-> Pow2(logits[i])]
  IN [num |-> num,
      den |-> SumOver(num, DOMAIN logits)
                + IF extra_logit = <<>> THEN 0 ELSE Pow2(extra_logit[1])]

\* py_utils.apply_mask_to_logits, then jax.nn.softmax (attention_extra_logit
\* is None) or exp(_log_softmax_with_extra_logit): the weights of the
\* positions, as numerators over a common denominator.
Softmax(logits, masked, extra_logit) ==
  LET all_masked == \A i \in DOMAIN logits : masked[i]
      num == [i \in DOMAIN logits |->
                IF masked[i]
                  THEN IF all_masked /\ extra_logit = <<>> THEN 1 ELSE 0
                  ELSE Pow2(logits[i])]
  IN [num |-> num,
      den |-> SumOver(num, DOMAIN logits)
                + IF extra_logit = <<>> THEN 0 ELSE Pow2(extra_logit[1])]

\* pv_einsum of the weights and the values
Context(probs, value) ==
  Frac(SumOver([i \in DOMAIN probs.num |-> probs.num[i] * value[i]],
               DOMAIN probs.num),
       probs.den)

\* _dynamic_qkv(query, key, value, atten_mask, start_chunk, num_chunks):
\* jax.lax.dynamic_slice clamps the start so that the slice fits.
dynamic_slice(s, start_chunk, num_chunks, w) ==
  LET width == num_chunks * w
      start == Clip(start_chunk, 0, s - width)
  IN start .. (start + width - 1)

_dynamic_qkv(key, value, atten_mask, start_chunk, num_chunks, w, extra) ==
  LET slice == dynamic_slice(Cardinality(DOMAIN key), start_chunk,
                             num_chunks, w)
  IN Context(Softmax([i \in slice |-> key[i]],
                     [i \in slice |-> atten_mask[i]], extra),
             value)

\* (mutant) the number of chunks taken as ceil(time_step / w)
num_chunks_of_exclusive(time_step, w, start_chunk) ==
  (time_step + w - 1) \div w - start_chunk

\* num_chunks = time_step // w - start_chunk + 1
num_chunks_of(time_step, w, start_chunk) ==
  time_step \div w - start_chunk + 1

\* jax.lax.switch(num_chunks - 1, dynamic_qkv_fns, ...): the index is
\* clamped; the result is the number of chunks of the kernel that runs.
switch(index, n) == Clip(index, 0, n - 1) + 1

\* encoded *= 1 - fully_masked
zero_if_fully_masked(encoded, atten_mask, zero_fully_masked) ==
  IF zero_fully_masked /\ \A i \in DOMAIN atten_mask : atten_mask[i]
    THEN <<0, 1>> ELSE encoded

\* The chunked kernel for one row of the batch.
ChunkedRow(a, key, value) ==
  LET w == a.s \div a.n
      c == switch(num_chunks_of(a.time_step, w, 0) - 1, a.n)
  IN zero_if_fully_masked(
       _dynamic_qkv(key, value, a.atten_mask, 0, c, w, a.extra_logit),
       a.atten_mask, a.zero_fully_masked)

\* The standard kernel for one row: the same over the full cache width.
StandardRow(a, key, value) ==
  zero_if_fully_masked(
    Context(Softmax(key, a.atten_mask, a.extra_logit), value),
    a.atten_mask, a.zero_fully_masked)

\* jnp.repeat(x, repeats, axis=0): every row repeats times, consecutively
jnp_repeat(x, repeats) ==
  [i \in 0 .. (Cardinality(DOMAIN x) * repeats - 1) |-> x[i \div repeats]]

\* (mutant) the cache tiled instead of repeated: query row i reads cache
\* row i mod k_b.
match_batch_tiled(q_b, k_b) ==
  IF q_b # k_b /\ q_b % k_b # 0
    THEN [error |-> "ValueError", rows |-> <<>>]
    ELSE [error |-> "None", rows |-> [i \in 0 .. (q_b - 1) |-> i % k_b]]

\* k_b = key.shape[0]; q_b = query.shape[0]; if q_b != k_b: ...: the cache
\* row every row of the batch reads, or the error raised.
match_batch(q_b, k_b) ==
  IF q_b # k_b
    THEN IF q_b % k_b # 0
           THEN [error |-> "ValueError", rows |-> <<>>]
           ELSE [error |-> "None",
                 rows |-> jnp_repeat([j \in 0 .. (k_b - 1) |-> j],
                                     q_b \div k_b)]
    ELSE [error |-> "None", rows |-> [j \in 0 .. (k_b - 1) |-> j]]

\* Row j of the cached key and value states: the rows differ in the values.
CacheKey(a, j) == a.key
CacheValue(a, j) == [i \in DOMAIN a.value |-> a.value[i] + j]

\* The full-width kernel of MXUDotProductAttention for one row.
MXURow(a, key, value) ==
  zero_if_fully_masked(
    Context(Softmax(key, a.atten_mask, a.extra_logit), value),
    a.atten_mask, a.zero_fully_masked)

AttnInput(kernel, n, s, time_step, key, value, atten_mask, extra_logit, zero_fully_masked, q_b, k_b) ==
  [op |-> "input", kernel |-> kernel, n |-> n, s |-> s,
   time_step |-> time_step, key |-> key, value |-> value,
   atten_mask |-> atten_mask, extra_logit |-> extra_logit,
   zero_fully_masked |-> zero_fully_masked, q_b |-> q_b, k_b |-> k_b]

AttnResult(a, m, num_chunks, encoded) ==
  [op |-> IF m.error = "None" THEN "encoded" ELSE m.error,
   a |-> a,
   rows |-> m.rows,
   num_chunks |-> num_chunks,
   slice |-> dynamic_slice(a.s, 0, num_chunks, a.s \div a.n),
   encoded |-> encoded,
   standard |->
     IF m.error = "None"
       THEN [i \in 0 .. (a.q_b - 1) |->
               LET j == i \div (a.q_b \div a.k_b)
               IN StandardRow(a, CacheKey(a, j), CacheValue(a, j))]
       ELSE <<>>]

\* ChunkedMQA._dot_atten_one_step_from_qkv: query and key have the same
\* batch size.
ChunkedMQAOneStep ==
  /\ layer_call.op = "input"
  /\ layer_call.kernel = "ChunkedMQA"
  /\ LET a == layer_call
         m == [error |-> "None", rows |-> [j \in 0 .. (a.k_b - 1) |-> j]]
     IN layer_call' =
          AttnResult(a, m,
            switch(num_chunks_of(a.time_step, a.s \div a.n, 0) - 1, a.n),
            [i \in DOMAIN m.rows |->
               ChunkedRow(a, CacheKey(a, m.rows[i]),
                          CacheValue(a, m.rows[i]))])
  /\ UNCHANGED <<enginevars, q_cache, q_src, method_call>>

\* ChunkedMHA._dot_atten_one_step
ChunkedMHAOneStep ==
  /\ layer_call.op = "input"
  /\ layer_call.kernel = "ChunkedMHA"
  /\ LET a == layer_call
         m == match_batch(a.q_b, a.k_b)
     IN layer_call' =
          AttnResult(a, m,
            switch(num_chunks_of(a.time_step, a.s \div a.n, 0) - 1, a.n),
            IF m.error = "None"
              THEN [i \in DOMAIN m.rows |->
                      ChunkedRow(a, CacheKey(a, m.rows[i]),
                                 CacheValue(a, m.rows[i]))]
              ELSE <<>>)
  /\ UNCHANGED <<enginevars, q_cache, q_src, method_call>>

\* MXUDotProductAttention._dot_atten_one_step
MXUOneStep ==
  /\ layer_call.op = "input"
  /\ layer_call.kernel = "MXUDotProductAttention"
  /\ LET a == layer_call
         m == match_batch(a.q_b, a.k_b)
     IN layer_call' =
          AttnResult(a, m, a.n,
            IF m.error = "None"
              THEN [i \in DOMAIN m.rows |->
                      MXURow(a, CacheKey(a, m.rows[i]),
                             CacheValue(a, m.rows[i]))]
              ELSE <<>>)
  /\ UNCHANGED <<enginevars, q_cache, q_src, method_call>>

\* The inputs: every value and mask over the small caches for a batch of
\* one; every pair of batch sizes, and the 4-chunk cache of width 16, with
\* a causal mask.
KeyPatterns(s) == {[i \in 0 .. (s - 1) |-> 0], [i \in 0 .. (s - 1) |-> i % 2]}
CausalMask(s, time_step) == [i \in 0 .. (s - 1) |-> i > time_step]
\* attention_extra_logit: <<>> is None, <<x>> the extra logit x
ExtraLogits == {<<>>, <<0>>}

SmallInputs ==
  UNION {
    {AttnInput(kernel, n, n * w, t, key, value, mask, extra, zfm, 1, 1) :
       kernel \in {"ChunkedMQA", "ChunkedMHA"},
       t \in 0 .. (n * w - 1),
       key \in KeyPatterns(n * w),
       value \in [0 .. (n * w - 1) -> 0 .. 1],
       mask \in [0 .. (n * w - 1) -> BOOLEAN],
       extra \in ExtraLogits,
       zfm \in BOOLEAN} :
    n \in 2 .. MaxSplit, w \in 1 .. MaxChunkWidth}

BatchInputs ==
  {AttnInput(kernel, 2, 4, t, [i \in 0 .. 3 |-> i % 2],
             [i \in 0 .. 3 |-> i % 2], CausalMask(4, t), <<>>, FALSE,
             q_b, k_b) :
     kernel \in {"ChunkedMHA", "MXUDotProductAttention"},
     t \in 0 .. 3, q_b \in 1 .. MaxBatch, k_b \in 1 .. MaxBatch}

WideInputs ==
  {AttnInput(kernel, 4, 16, t, [i \in 0 .. 15 |-> i % 2],
             [i \in 0 .. 15 |-> i % 2], CausalMask(16, t), <<>>, FALSE,
             1, 1) :
     kernel \in {"ChunkedMQA", "ChunkedMHA"}, t \in 0 .. 15}

InitAttn ==
  /\ EngineIdle
  /\ q_cache = <<>>
  /\ q_src = <<>>
  /\ method_call = <<>>
  /\ layer_call \in
       {a \in SmallInputs \cup BatchInputs \cup WideInputs :
          a.kernel = "ChunkedMQA" => ~a.zero_fully_masked}

NextAttn ==
  \/ ChunkedMQAOneStep
  \/ ChunkedMHAOneStep
  \/ MXUOneStep

SpecAttn == InitAttn /\ [][NextAttn]_vars

\* ---- claims about the one-step attention kernels ----

IsChunkedCall ==
  /\ layer_call.op = "encoded"
  /\ layer_call.a.kernel \in {"ChunkedMQA", "ChunkedMHA"}

\* C14: for a cache of width s split in N > 1 chunks of width w = s / N, a
\* decode step at time_step in 0..s-1 runs the kernel of
\* c = time_step div w + 1 = ceil((time_step + 1) / w) chunks, 1 <= c <= N,
\* over the slice [0, c*w), which contains time_step, and
\* (c - 1) * w <= time_step; with N = 4, s = 16, time_step = 7 it is the
\* 2-chunk kernel over positions 0..7.
C14_ChunkSelection ==
  IsChunkedCall =>
    LET a == layer_call.a
        w == a.s \div a.n
        c == layer_call.num_chunks
    IN /\ a.n > 1 /\ a.s % a.n = 0 /\ a.time_step \in 0 .. (a.s - 1)
       /\ c = a.time_step \div w + 1
       /\ (c - 1) * w < a.time_step + 1 /\ a.time_step + 1 <= c * w
       /\ 1 <= c /\ c <= a.n
       /\ layer_call.slice = 0 .. (c * w - 1)
       /\ a.time_step \in layer_call.slice
       /\ (c - 1) * w <= a.time_step
       /\ (a.n = 4 /\ a.s = 16 /\ a.time_step = 7) =>
            (c = 2 /\ layer_call.slice = 0 .. 7)

C14_Witness ==
  /\ IsChunkedCall
  /\ layer_call.a.n = 4 /\ layer_call.a.s = 16 /\ layer_call.a.time_step = 7
  /\ layer_call.num_chunks = 2

BeyondSliceMasked ==
  \A i \in (0 .. (layer_call.a.s - 1)) \ layer_call.slice :
    layer_call.a.atten_mask[i]

SliceAllMasked == \A i \in layer_call.slice : layer_call.a.atten_mask[i]

\* C15 (as stated): for every valid time_step and chunk count, whenever the
\* mask masks out every position at or beyond c*w, the context of the
\* chunked kernel equals the context of the standard kernel over the full
\* width s.
C15_ChunkedEqualsStandard ==
  (IsChunkedCall /\ BeyondSliceMasked) =>
    layer_call.encoded = layer_call.standard

\* C15 (amended): the same, provided the row is not wholly masked with
\* neither an extra logit nor zero_fully_masked: at least one position of
\* the slice is unmasked, or attention_extra_logit is set, or
\* zero_fully_masked zeroes the row.
C15_ChunkedEqualsStandardUnlessAllMasked ==
  (/\ IsChunkedCall
   /\ BeyondSliceMasked
   /\ \/ ~SliceAllMasked
      \/ layer_call.a.extra_logit # <<>>
      \/ layer_call.a.zero_fully_masked) =>
    layer_call.encoded = layer_call.standard

C15_Witness ==
  /\ IsChunkedCall
  /\ layer_call.num_chunks < layer_call.a.n
  /\ BeyondSliceMasked
  /\ ~SliceAllMasked
  /\ \E i \in (0 .. (layer_call.a.s - 1)) \ layer_call.slice :
       layer_call.a.value[i] # 0
  /\ layer_call.encoded = layer_call.standard
  /\ layer_call.encoded[0] # <<0, 1>>

IsBatchedCall ==
  /\ layer_call.op # "input"
  /\ layer_call.a.kernel \in {"ChunkedMHA", "MXUDotProductAttention"}

\* The context of query row i when it reads row j of the cache.
ReadRow(i, j) ==
  LET a == layer_call.a
  IN IF a.kernel = "ChunkedMHA"
       THEN ChunkedRow(a, CacheKey(a, j), CacheValue(a, j))
       ELSE MXURow(a, CacheKey(a, j), CacheValue(a, j))

\* C16: in the chunked-MHA and the wide-query kernels, when q_b = k_b the
\* cache is used as it is; when q_b is a multiple of k_b every cache entry
\* is replicated q_b / k_b times, consecutively, so that query row i reads
\* cache row i div (q_b / k_b); otherwise the kernel raises an error and
\* produces no context.
C16_BatchMatching ==
  IsBatchedCall =>
    LET a == layer_call.a
    IN /\ a.q_b = a.k_b =>
            /\ layer_call.op = "encoded"
            /\ layer_call.rows = [i \in 0 .. (a.k_b - 1) |-> i]
            /\ \A i \in 0 .. (a.k_b - 1) : layer_call.encoded[i] = ReadRow(i, i)
       /\ (a.q_b # a.k_b /\ a.q_b % a.k_b = 0) =>
            /\ layer_call.op = "encoded"
            /\ DOMAIN layer_call.rows = 0 .. (a.q_b - 1)
            /\ \A i \in 0 .. (a.q_b - 1) :
                 layer_call.rows[i] = i \div (a.q_b \div a.k_b)
            /\ \A j \in 0 .. (a.k_b - 1) :
                 {i \in 0 .. (a.q_b - 1) : layer_call.rows[i] = j}
                   = (j * (a.q_b \div a.k_b))
                       .. ((j + 1) * (a.q_b \div a.k_b) - 1)
            /\ \A i \in 0 .. (a.q_b - 1) :
                 layer_call.encoded[i] = ReadRow(i, i \div (a.q_b \div a.k_b))
       /\ a.q_b % a.k_b # 0 =>
            /\ layer_call.op = "ValueError"
            /\ layer_call.encoded = <<>>

C16_Witness ==
  /\ IsBatchedCall
  /\ layer_call.op = "encoded"
  /\ layer_call.a.q_b = 4 /\ layer_call.a.k_b = 2
  /\ layer_call.rows[1] = 0 /\ layer_call.rows[2] = 1
  /\ layer_call.encoded[0] = layer_call.encoded[1]
  /\ layer_call.encoded[1] # layer_call.encoded[2]

\* ---------------------------------------------------------------------
\* Multi-host input replication:
\* LMDecodeMethodContinuousBatching.input_to_device_for_continuous_batching
\* and _replicate of the compiled prefill function.
\* ---------------------------------------------------------------------

NumHosts == 2          \* hosts of the global mesh
NumLocalDevices == 2   \* len(self._local_devices) on every host
XLen == 2              \* length of the padded one-core input
XMax == 1              \* elements of a host input range over 0..XMax

Hosts == 0 .. (NumHosts - 1)
LocalDevices == 0 .. (NumLocalDevices - 1)
DevicePositions == Hosts \X LocalDevices

\* What a host may be given: arrays of 1..XLen elements.
HostArrays == UNION {[1 .. n -> 0 .. XMax] : n \in 1 .. XLen}

\* resize_host_array: the host array after padding (or slicing) to the
\* shape of the global input without its leading cores dimension.
resize_host_array(x) ==
  [i \in 1 .. XLen |-> IF i <= Len(x) THEN x[i] ELSE 0]

zeros_like(x) == [i \in DOMAIN x |-> 0]

\* (mutant) every core of the primary host is given the input
to_buffers_every_core(x, is_primary_host) ==
  [i \in LocalDevices |-> IF is_primary_host THEN x ELSE zeros_like(x)]

\* to_buffers(x): the buffers of this host's local devices
to_buffers(x, is_primary_host) ==
  IF is_primary_host
    THEN [i \in LocalDevices |-> IF i = 0 THEN x ELSE zeros_like(x)]
    ELSE [i \in LocalDevices |-> zeros_like(x)]

RECURSIVE SumArrays(_, _)
SumArrays(f, S) ==
  IF S = {} THEN [i \in 1 .. XLen |-> 0]
  ELSE LET p == CHOOSE q \in S : TRUE
           rest == SumArrays(f, S \ {p})
       IN [i \in 1 .. XLen |-> f[p][i] + rest[i]]

\* _replicate(x): jnp.sum over the leading cores dimension, replicated on
\* every device.
_replicate(global_input) ==
  LET summed == SumArrays(global_input, DOMAIN global_input)
  IN [p \in DOMAIN global_input |-> summed]

\* One host runs input_to_device_for_continuous_batching on what it was
\* given.
InputToDevice(h) ==
  /\ method_call.op \in {"input", "input_to_device"}
  /\ method_call.buffers[h] = <<>>
  /\ LET host_inputs == resize_host_array(method_call.one_core_inputs[h])
     IN method_call' =
          [method_call EXCEPT
             !.op = "input_to_device",
             !.host_inputs[h] = host_inputs,
             !.buffers[h] = to_buffers(host_inputs, h = method_call.primary)]
  /\ UNCHANGED <<enginevars, kvvars>>

\* The compiled function runs once every host has placed its buffers:
\* the global array has one entry per device position.
Replicate ==
  /\ method_call.op = "input_to_device"
  /\ \A h \in Hosts : method_call.buffers[h] # <<>>
  /\ LET global_input ==
           [p \in DevicePositions |-> method_call.buffers[p[1]][p[2]]]
     IN method_call' =
          [method_call EXCEPT
             !.op = "_replicate",
             !.batched_inputs = _replicate(global_input)]
  /\ UNCHANGED <<enginevars, kvvars>>

InitReplicate ==
  /\ EngineIdle
  /\ q_cache = <<>>
  /\ q_src = <<>>
  /\ layer_call = <<>>
  /\ \E primary \in Hosts, given \in [Hosts -> HostArrays] :
       method_call = [op |-> "input",
                      primary |-> primary,
                      one_core_inputs |-> given,
                      host_inputs |-> [h \in Hosts |-> <<>>],
                      buffers |-> [h \in Hosts |-> <<>>],
                      batched_inputs |-> <<>>]

NextReplicate ==
  \/ \E h \in Hosts : InputToDevice(h)
  \/ Replicate

SpecReplicate == InitReplicate /\ [][NextReplicate]_vars

\* C17: for any input x, exactly one device position, the first local
\* device of the primary host, holds x and every other position on every
\* host holds zeros of x's shape, whatever that host was given; the sum
\* over the device axis equals x and every device sees the same value.
C17_OnePositionHoldsInput ==
  LET x == method_call.host_inputs[method_call.primary]
  IN /\ \A h \in Hosts :
          method_call.buffers[h] # <<>> =>
            \A i \in LocalDevices :
              method_call.buffers[h][i] =
                IF h = method_call.primary /\ i = 0
                  THEN method_call.host_inputs[h]
                  ELSE [k \in 1 .. XLen |-> 0]
     /\ method_call.op = "_replicate" =>
          /\ Cardinality({p \in DevicePositions :
                            method_call.buffers[p[1]][p[2]] = x}) = 1
               \/ x = zeros_like(x)
          /\ DOMAIN method_call.batched_inputs = DevicePositions
          /\ \A p \in DevicePositions : method_call.batched_inputs[p] = x

C17_Witness ==
  /\ method_call.op = "_replicate"
  /\ method_call.host_inputs[method_call.primary] # [k \in 1 .. XLen |-> 0]
  /\ \E h \in Hosts :
       /\ h # method_call.primary
       /\ method_call.host_inputs[h] # [k \in 1 .. XLen |-> 0]
       /\ method_call.host_inputs[h]
            # method_call.host_inputs[method_call.primary]
  /\ \A p \in DevicePositions :
       method_call.batched_inputs[p]
         = method_call.host_inputs[method_call.primary]

\* ---------------------------------------------------------------------
\* ServableMethod.compute (servable_model.py)
\* ---------------------------------------------------------------------

MaxBatchSize == 3      \* configured batch sizes range over 1..MaxBatchSize
MaxRawInputs == 4      \* len(raw_inputs) ranges over 0..MaxRawInputs

ComputeSteps ==
  <<"pre_processing", "update_extra_inputs", "input_to_device",
    "device_compute", "output_to_host", "post_processing">>

\* self._sorted_batch_sizes = sorted(self._sorted_batch_sizes)
RECURSIVE sorted(_)
sorted(S) ==
  IF S = {} THEN <<>>
  ELSE LET lo == CHOOSE x \in S : \A y \in S : x <= y
       IN <<lo>> \o sorted(S \ {lo})

\* batch_size: sorted_batch_sizes[-1] if sorted_batch_sizes else 1
batch_size(sorted_batch_sizes) ==
  IF sorted_batch_sizes # <<>>
    THEN sorted_batch_sizes[Len(sorted_batch_sizes)]
    ELSE 1

\* get_padded_batch_size: the first configured size that fits, or 0 for
\* the ValueError raised when none does.
get_padded_batch_size(sorted_batch_sizes, unpadded_batch_size) ==
  LET fits == {k \in DOMAIN sorted_batch_sizes :
                 sorted_batch_sizes[k] >= unpadded_batch_size}
  IN IF fits = {} THEN 0
     ELSE sorted_batch_sizes[CHOOSE k \in fits : \A j \in fits : k <= j]

\* The steps of compute() from step k on: each step is called in turn, and
\* an exception of a step (raises = k) ends the call there.
RECURSIVE RunSteps(_, _, _, _)
RunSteps(k, called, padded, raises) ==
  IF k > Len(ComputeSteps)
    THEN [called |-> called, error |-> "None", returned |-> TRUE]
  ELSE IF ComputeSteps[k] = "device_compute" /\ padded = 0
    THEN [called |-> called, error |-> "ValueError", returned |-> FALSE]
  ELSE IF raises = k
    THEN [called |-> Append(called, ComputeSteps[k]),
          error |-> "Exception", returned |-> FALSE]
  ELSE RunSteps(k + 1, Append(called, ComputeSteps[k]), padded, raises)

\* (mutant) the batch size is checked after pre_processing
compute_checks_late(sorted_batch_sizes, unpadded_batch_size, raises) ==
  IF raises = 1
    THEN [called |-> <<"pre_processing">>, error |-> "Exception",
          returned |-> FALSE]
  ELSE IF unpadded_batch_size > batch_size(sorted_batch_sizes)
    THEN [called |-> <<"pre_processing">>, error |-> "ValueError",
          returned |-> FALSE]
  ELSE RunSteps(2, <<"pre_processing">>,
                get_padded_batch_size(sorted_batch_sizes,
                                      unpadded_batch_size),
                raises)

\* compute(raw_inputs, extra_inputs)
compute(sorted_batch_sizes, unpadded_batch_size, raises) ==
  IF unpadded_batch_size > batch_size(sorted_batch_sizes)
    THEN [called |-> <<>>, error |-> "ValueError", returned |-> FALSE]
    ELSE RunSteps(1, <<>>,
                  get_padded_batch_size(sorted_batch_sizes,
                                        unpadded_batch_size),
                  raises)

Compute ==
  /\ method_call.op = "input"
  /\ LET r == compute(method_call.sorted_batch_sizes,
                      method_call.raw_inputs, method_call.raises)
     IN method_call' =
          [method_call EXCEPT !.op = "compute", !.called = r.called,
                              !.error = r.error, !.returned = r.returned]
  /\ UNCHANGED <<enginevars, kvvars>>

InitCompute ==
  /\ EngineIdle
  /\ q_cache = <<>>
  /\ q_src = <<>>
  /\ layer_call = <<>>
  /\ \E sizes \in SUBSET (1 .. MaxBatchSize), n \in 0 .. MaxRawInputs,
        raises \in 0 .. Len(ComputeSteps) :
       method_call = [op |-> "input",
                      sorted_batch_sizes |-> sorted(sizes),
                      raw_inputs |-> n,
                      raises |-> raises,
                      called |-> <<>>,
                      error |-> "None",
                      returned |-> FALSE]

SpecCompute == InitCompute /\ [][Compute]_vars

InvalidSlots == {-1, num_cache_slots}

\* The compiled insert function takes slot as a traced argument and cannot
\* raise on its value: an index out of range is clamped or wrapped to a
\* slot of the cache (target), or the update is dropped (target = -1).
SampleInsertOutOfRange(prefix_decode_state, prefix_decode_cache, ds, cache, target) ==
  IF target \in Slots
    THEN SampleInsert(prefix_decode_state, prefix_decode_cache, ds, cache,
                      target)
    ELSE <<ds, cache>>

\* insert(prefix_state, slot) with slot out of range: the same statements
\* as for a valid slot; nothing looks at slot before the device function
\* runs, and its outputs are stored.
InsertOutOfRange ==
  /\ Serving
  /\ prefix_state # NestedMap
  /\ \E slot \in InvalidSlots, target \in Slots \cup {-1} :
       /\ refresh_mdl_vars
       /\ LET out == SampleInsertOutOfRange(prefix_state.decode_state,
                                            prefix_state.decode_cache,
                                            decode_state, mdl_vars', target)
          IN /\ written' = [decode_state |-> out[1], decode_cache |-> out[2]]
             /\ decode_state' = out[1]
             /\ decode_cache' = out[2]
       /\ snap' = [decode_state |-> decode_state,
                   decode_cache |-> decode_cache]
       /\ call' = Record(call.n + 1, "insert", slot, FALSE, -1, <<>>)
       /\ recent' = Push(recent, [op |-> "insert", slot |-> slot])
  /\ UNCHANGED <<cfgvars, layervars, pc, loop_i, prefix_state,
                 num_left_align>>

NextAnySlot ==
  \/ Next
  \/ InsertOutOfRange

SpecAnySlot == Init /\ [][NextAnySlot]_vars

\* C19: an insert whose slot is not a valid index (slot < 0 or
\* slot >= num_cache_slots) never corrupts shared state: the violation is
\* detected (the call ends in an error) before any mutation, and the
\* Decode State and KV Cache Store of every valid slot are as before.
C19_InvalidSlotRejected ==
  (call.op = "insert" /\ call.slot \notin Slots) =>
    /\ call.ret = <<"ValueError">>
    /\ \A s \in Slots :
         SlotView(decode_state, decode_cache, s)
           = SlotView(snap.decode_state, snap.decode_cache, s)

\* ---------------------------------------------------------------------
\* A text prompt on its way to prefill: pre_processing, then prefill
\* ---------------------------------------------------------------------

\* The token sequences a text may tokenize to: up to one token more than
\* max_input_seq_len.
RawPrompts ==
  UNION {[1 .. n -> Vocab \ {EosId}] : n \in 1 .. (input_sequence_len + 1)}

\* (mutant) the tokens are passed on as they are
decode_tf_tokenize_inputs_as_is(tokens, max_input_seq_len, keep) == tokens

\* decode_tf_tokenize_inputs(texts, tokenizer, max_input_seq_len, ...):
\* "Inputs are padded or truncated to this size". A sequence of at most
\* max_input_seq_len tokens keeps its tokens (the padding is what lies
\* beyond them); a longer one is cut to max_input_seq_len tokens, from
\* one end or the other.
decode_tf_tokenize_inputs(tokens, max_input_seq_len, keep) ==
  IF Len(tokens) <= max_input_seq_len THEN tokens
  ELSE IF keep = "first" THEN SubSeq(tokens, 1, max_input_seq_len)
  ELSE SubSeq(tokens, Len(tokens) - max_input_seq_len + 1, Len(tokens))

\* pre_processing(raw_inputs), then prefill(inputs) on its result.
PrefillText ==
  /\ Serving
  /\ \E raw \in RawPrompts, keep \in {"first", "last"} :
       LET ids == decode_tf_tokenize_inputs(raw, input_sequence_len, keep)
       IN /\ DoPrefill(ids, 1, TRUE, call.n)
          /\ method_call' = [op |-> "pre_processing", raw_inputs |-> raw,
                             ids |-> ids]
  /\ UNCHANGED <<cfgvars, kvvars, pc, loop_i>>

NextText ==
  \/ Register
  \/ WarmupPrefill
  \/ WarmupInsert
  \/ WarmupGenerate
  \/ WarmupSetStep
  \/ PrefillText
  \/ PrefillWithDummy
  \/ Insert
  \/ Generate
  \/ Detokenize

SpecText == Init /\ [][NextText]_vars

LongPromptPrefilled ==
  /\ PrefillText
  /\ Len(method_call'.raw_inputs) > input_sequence_len

C21_ArraysPerSlotAndSentinels ==
  /\ Loaded =>
       \A f \in SlotFields :
         /\ DOMAIN decode_state[f] = 0 .. (num_cache_slots - 1)
         /\ Cardinality(DOMAIN decode_state[f]) = num_cache_slots
  /\ call.op = "register" =>
       \A s \in 0 .. (num_cache_slots - 1) :
         /\ decode_state.temperature[s] = 0
         /\ decode_state.decode_lengths[s] = 0
         /\ decode_state.prefix_lengths[s] = 0
         /\ decode_state.segment_pos[s] = 0
         /\ decode_state.output_ids[s] = 0
         /\ decode_state.logprobs[s] = 0
         /\ decode_state.has_eos[s] = FALSE
         /\ decode_state.done[s] = TRUE
         /\ decode_state.per_example_top_p[s] = 1
         /\ decode_state.per_example_top_k[s] = 1
         /\ decode_state.per_sample_steps[s] = input_sequence_len
         /\ decode_state.per_example_max_decode_steps[s] = max_decode_steps

C21_Witness ==
  /\ call.op = "generate"
  /\ num_cache_slots = 2
  /\ \E s \in Slots : decode_state.decode_lengths[s] > 0
  /\ \A f \in SlotFields : Cardinality(DOMAIN decode_state[f]) = 2

MaxPosition(ds) ==
  CHOOSE m \in {ds.per_sample_steps[s] : s \in DOMAIN ds.per_sample_steps} :
    \A s \in DOMAIN ds.per_sample_steps : ds.per_sample_steps[s] <= m

RegisterFurtherShape ==
  /\ pc = "serving"
  /\ call.n = 0
  /\ call.op \in {"register", "insert"}
  /\ init_engine
  /\ pc' = IF precompile THEN "w_prefill_1" ELSE "serving"
  /\ loop_i' = 0
  /\ call' = Record(0, "register", -1, FALSE, -1, <<>>)
  /\ recent' = <<>>
  /\ snap' = NoState
  /\ num_left_align' = 0
  /\ UNCHANGED <<cfgvars, layervars, prefix_state>>

NextShapes ==
  \/ Next
  \/ RegisterFurtherShape

SpecShapes == Init /\ [][NextShapes]_vars

\* A step that leaves the engine with a newly initialised cache and state.
ReInitialized ==
  /\ call'.op = "register"
  /\ decode_state' = init_decode_state
  /\ decode_cache' = init_decode_cache

\* C24: the decode state and the KV cache are zero-filled with a sequence
\* length of input_sequence_len + max_decode_steps when the engine is
\* registered, and once a sequence has been inserted no later step of the
\* engine, registering a further input shape included, initialises them again.
C24_AllocatedOnce ==
  /\ [](call.op = "register" =>
         /\ decode_state = init_decode_state
         /\ \A l \in Layers : \A n \in KVNames : \A s \in Slots :
              /\ DOMAIN decode_cache.transformer[l][n][s] = 0 .. (sql_len - 1)
              /\ \A p \in Positions : decode_cache.transformer[l][n][s][p] = 0)
  /\ [][snap # NoState => ~ReInitialized]_vars

\* ------------------------------------------------- the use of prefix states
\* The engine with the use of the prefix states written down: layer_call is
\* <<>> while no prefix state is held and <<k>> when the prefix state held
\* has been handed to insert k times (counted up to MaxUses).
MaxUses == 2

hostvars == <<q_cache, q_src, method_call>>

Created(keep) == layer_call' = IF keep THEN <<0>> ELSE layer_call

Consumed == layer_call' = <<Min(layer_call[1] + 1, MaxUses)>>

\* _register_for_input_shape up to the warm-up.
RegisterP ==
  /\ pc = "constructed"
  /\ init_engine
  /\ pc' = IF precompile THEN "w_prefill_1" ELSE "serving"
  /\ call' = Record(0, "register", -1, FALSE, -1, <<>>)
  /\ UNCHANGED <<cfgvars, hostvars, layer_call, prefix_state, loop_i, recent, snap, num_left_align>>

\* warm-up: "_, _, prefix_state = self.prefill_with_dummy()" first, and
\* "self.prefill_with_dummy()" with the result dropped after the loop.
WarmupPrefillP ==
  /\ pc \in {"w_prefill_1", "w_prefill_2"}
  /\ DoPrefill(DummyPrompt, 0, pc = "w_prefill_1", 0)
  /\ Created(pc = "w_prefill_1")
  /\ pc' = IF pc = "w_prefill_1" THEN "w_insert_1" ELSE "w_insert_2"
  /\ UNCHANGED <<cfgvars, hostvars, loop_i>>

\* warm-up: self.insert(prefix_state, slot_in_use)
WarmupInsertP ==
  /\ pc \in {"w_insert_1", "w_insert_2"}
  /\ DoInsert(0, 0)
  /\ Consumed
  /\ pc' = IF pc = "w_insert_1" THEN "w_gen_a" ELSE "serving"
  /\ UNCHANGED <<cfgvars, hostvars, loop_i>>

\* warm-up: the two self.generate() of one loop iteration.
WarmupGenerateP ==
  /\ pc \in {"w_gen_a", "w_gen_b"}
  /\ DoGenerate(0)
  /\ pc' = IF pc = "w_gen_a" THEN "w_set_step"
           ELSE IF loop_i = 0 THEN "w_gen_a" ELSE "w_prefill_2"
  /\ loop_i' = IF pc = "w_gen_b" THEN loop_i + 1 ELSE loop_i
  /\ UNCHANGED <<cfgvars, hostvars, layer_call>>

\* warm-up: self.decode_state.step = max_decode_steps + input_sequence_len - 1
WarmupSetStepP ==
  /\ pc = "w_set_step"
  /\ decode_state' =
       [decode_state EXCEPT
          !.step = max_decode_steps + input_sequence_len - 1]
  /\ call' = Record(0, "assign_step", -1, FALSE, -1, <<>>)
  /\ pc' = "w_gen_b"
  /\ UNCHANGED <<cfgvars, hostvars, layer_call, decode_cache, mdl_vars, prefix_state, loop_i, recent, snap, written, num_left_align>>

\* Serving: the caller hands each prefix state to insert once.
PrefillP ==
  /\ Serving
  /\ \E prompt \in Prompts : DoPrefill(prompt, 1, TRUE, call.n)
  /\ Created(TRUE)
  /\ UNCHANGED <<cfgvars, hostvars, pc, loop_i>>

PrefillWithDummyP ==
  /\ Serving
  /\ DoPrefill(DummyPrompt, 0, TRUE, call.n)
  /\ Created(TRUE)
  /\ UNCHANGED <<cfgvars, hostvars, pc, loop_i>>

InsertP ==
  /\ Serving
  /\ prefix_state # NestedMap
  /\ layer_call = <<0>>
  /\ \E slot \in Slots : DoInsert(slot, call.n + 1)
  /\ Consumed
  /\ UNCHANGED <<cfgvars, hostvars, pc, loop_i>>

GenerateP ==
  /\ Serving
  /\ DoGenerate(call.n + 1)
  /\ UNCHANGED <<cfgvars, hostvars, layer_call, pc, loop_i>>

NextPrefix ==
  \/ RegisterP
  \/ WarmupPrefillP
  \/ WarmupInsertP
  \/ WarmupGenerateP
  \/ WarmupSetStepP
  \/ PrefillP
  \/ PrefillWithDummyP
  \/ InsertP
  \/ GenerateP

SpecPrefix == Init /\ [][NextPrefix]_vars

\* C25: no prefix state is inserted twice, in the warm-up as in serving: the
\* prefix state an insert takes has not been taken by an insert before; and a
\* prefill returns a new prefix state (not yet inserted) and leaves the shared
\* cache, the model variables and the decode state as they are, as an insert
\* or a generate leaves the prefix state held.
C25_PrefixStateInsertedOnce ==
  /\ [][call'.op = "insert" => layer_call = <<0>>]_vars
  /\ [][(call'.op = "prefill" /\ prefix_state' # prefix_state) =>
          /\ layer_call' = <<0>>
          /\ decode_cache' = decode_cache
          /\ mdl_vars' = mdl_vars
          /\ decode_state' = decode_state]_vars
  /\ [][call'.op \in {"insert", "generate"} =>
          prefix_state' = prefix_state]_vars

\* --------------------------------------------- ServableLMModel.init_method
MethodNames == {"SCORE", "GENERATE", "GENERATE_STREAM", "EMBED", "GRADIENT"}
OtherNames == {"UNKNOWN"}
ParamKinds == {"ScoreHParams", "DecodeHParams", "TextToEmbeddingHParams", "GradientHParams"}

\* isinstance(method_params, cls): GradientHParams derives from ScoreHParams.
isinstance(kind, cls) ==
  kind = cls \/ (cls = "ScoreHParams" /\ kind = "GradientHParams")

Raised(e) == [error |-> e, method_object |-> "None"]
Returned(c) == [error |-> "None", method_object |-> c]

\* (mutant) the continuous-batching method is chosen for zero slots too.
init_method_zero_slots(method, p) ==
  CASE method = "SCORE" ->
         IF ~isinstance(p.kind, "ScoreHParams") THEN Raised("AssertionError")
         ELSE Returned("LMScoreMethod")
    [] method = "GENERATE" ->
         IF ~isinstance(p.kind, "DecodeHParams") THEN Raised("AssertionError")
         ELSE IF p.num_cache_slots >= 0
           THEN Returned("LMDecodeMethodContinuousBatching")
           ELSE Returned("LMDecodeMethod")
    [] method = "GENERATE_STREAM" ->
         IF ~isinstance(p.kind, "DecodeHParams") THEN Raised("AssertionError")
         ELSE Returned("LMDecodeMethod")
    [] method = "EMBED" ->
         IF ~isinstance(p.kind, "TextToEmbeddingHParams")
           THEN Raised("AssertionError")
         ELSE IF ~p.output_embedding_name THEN Raised("AssertionError")
         ELSE IF ~p.model_method_name THEN Raised("ValueError")
         ELSE Returned("TextToEmbedding")
    [] method = "GRADIENT" ->
         IF ~isinstance(p.kind, "GradientHParams") THEN Raised("AssertionError")
         ELSE IF ~(p.inputs_tensor_names \/ p.mdl_vars_tensor_names)
           THEN Raised("AssertionError")
         ELSE Returned("LMGradientMethod")
    [] OTHER -> Raised("NotImplementedError")

\* init_method(method, ..., method_params, ...): the class of the method
\* object returned, or the exception raised.  A field of p that is a name or
\* a list is TRUE when it is given (not None).
init_method(method, p) ==
  CASE method = "SCORE" ->
         IF ~isinstance(p.kind, "ScoreHParams") THEN Raised("AssertionError")
         ELSE Returned("LMScoreMethod")
    [] method = "GENERATE" ->
         IF ~isinstance(p.kind, "DecodeHParams") THEN Raised("AssertionError")
         ELSE IF p.num_cache_slots > 0
           THEN Returned("LMDecodeMethodContinuousBatching")
           ELSE Returned("LMDecodeMethod")
    [] method = "GENERATE_STREAM" ->
         IF ~isinstance(p.kind, "DecodeHParams") THEN Raised("AssertionError")
         ELSE Returned("LMDecodeMethod")
    [] method = "EMBED" ->
         IF ~isinstance(p.kind, "TextToEmbeddingHParams")
           THEN Raised("AssertionError")
         ELSE IF ~p.output_embedding_name THEN Raised("AssertionError")
         ELSE IF ~p.model_method_name THEN Raised("ValueError")
         ELSE Returned("TextToEmbedding")
    [] method = "GRADIENT" ->
         IF ~isinstance(p.kind, "GradientHParams") THEN Raised("AssertionError")
         ELSE IF ~(p.inputs_tensor_names \/ p.mdl_vars_tensor_names)
           THEN Raised("AssertionError")
         ELSE Returned("LMGradientMethod")
    [] OTHER -> Raised("NotImplementedError")

MethodParams ==
  [kind : ParamKinds,
   num_cache_slots : 0 .. MaxSlots,
   output_embedding_name : BOOLEAN,
   model_method_name : BOOLEAN,
   inputs_tensor_names : BOOLEAN,
   mdl_vars_tensor_names : BOOLEAN]

InitMethod ==
  /\ method_call.op = "input"
  /\ LET r == init_method(method_call.method, method_call.method_params)
     IN method_call' = [method_call EXCEPT !.op = "init_method",
                                           !.error = r.error,
                                           !.method_object = r.method_object]
  /\ UNCHANGED <<enginevars, kvvars>>

InitInitMethod ==
  /\ EngineIdle
  /\ q_cache = <<>>
  /\ q_src = <<>>
  /\ layer_call = <<>>
  /\ \E method \in MethodNames \cup OtherNames, p \in MethodParams :
       method_call = [op |-> "input",
                      method |-> method,
                      method_params |-> p,
                      error |-> "None",
                      method_object |-> "None"]

SpecInitMethod == InitInitMethod /\ [][InitMethod]_vars

\* C26: init_method raises, and returns no method object, for a method name
\* that is not supported and for an embedding method whose
\* output_embedding_name or model_method_name is missing; and for GENERATE
\* with decode parameters it returns the continuous-batching method exactly
\* when decoder.num_cache_slots > 0 (the plain decode method otherwise).
C26_ConfigurationErrorsRaised ==
  method_call.op = "init_method" =>
    LET p == method_call.method_params
    IN /\ method_call.method \notin MethodNames =>
            /\ method_call.error = "NotImplementedError"
            /\ method_call.method_object = "None"
       /\ (/\ method_call.method = "EMBED"
           /\ ~(p.output_embedding_name /\ p.model_method_name)) =>
            /\ method_call.error \in {"AssertionError", "ValueError"}
            /\ method_call.method_object = "None"
       /\ (/\ method_call.method = "EMBED"
           /\ p.kind = "TextToEmbeddingHParams"
           /\ p.output_embedding_name
           /\ ~p.model_method_name) => method_call.error = "ValueError"
       /\ (method_call.method = "GENERATE" /\ p.kind = "DecodeHParams") =>
            /\ method_call.error = "None"
            /\ (method_call.method_object = "LMDecodeMethodContinuousBatching")
                 <=> (p.num_cache_slots > 0)
            /\ p.num_cache_slots <= 0 =>
                 method_call.method_object = "LMDecodeMethod"
       /\ (method_call.error = "None") <=> (method_call.method_object # "None")

C26_Witness ==
  /\ method_call.op = "init_method"
  /\ method_call.method = "EMBED"
  /\ method_call.method_params.kind = "TextToEmbeddingHParams"
  /\ method_call.method_params.output_embedding_name
  /\ ~method_call.method_params.model_method_name
  /\ method_call.error = "ValueError"
  /\ method_call.method_object = "None"

\* ------------------------------------------------------ claims: the warm-up
InWarmup == pc \notin {"constructed", "serving"}

\* C27: with precompile the warm-up's generate() calls (two in each of the two
\* loop iterations) include at least one with the left-align flag clear and at
\* least one with it set; every generate of the warm-up comes after an insert,
\* and every insert of the warm-up is of the dummy prefix into slot 0; and the
\* step that ends the warm-up is such an insert.
C27_WarmupBothFlagsAndFinalInsert ==
  /\ [][(InWarmup /\ call'.op = "insert") =>
          /\ call'.slot = 0
          /\ prefix_state = SamplePrefill(DummyPrompt, 0)
          /\ recent'[Len(recent')] = [op |-> "insert", slot |-> 0]]_vars
  /\ [][(InWarmup /\ call'.op = "generate") =>
          /\ snap # NoState
          /\ num_left_align' =
               IF call'.left_align THEN num_left_align + 1
                                   ELSE num_left_align]_vars
  /\ [][(InWarmup /\ pc' = "serving") =>
          /\ call'.op = "insert"
          /\ loop_i = 2
          /\ num_left_align >= 1
          /\ (2 * loop_i) - num_left_align >= 1
          /\ UNCHANGED num_left_align]_vars

C27_Witness ==
  /\ precompile
  /\ pc = "serving"
  /\ call.op = "insert"
  /\ call.n = 0
  /\ call.slot = 0
  /\ num_left_align = 2
  /\ num_cache_slots = 2
  /\ recent = <<[op |-> "generate", slot |-> -1],
                [op |-> "generate", slot |-> -1],
                [op |-> "generate", slot |-> -1],
                [op |-> "insert", slot |-> 0]>>

\* ------------------------------------------ ServableMethod: the batch sizes
MaxListLen == 3        \* configured batch sizes in one list

\* What method_params.get_batch_size() returns: an int or a list of ints, the
\* list in any order and with repetitions.
BatchSizeParams ==
  [is_int : {TRUE}, int : 1 .. MaxBatchSize, list : {<<>>}]
    \cup [is_int : {FALSE}, int : {0},
          list : UNION {[1 .. k -> 1 .. MaxBatchSize] : k \in 0 .. MaxListLen}]

\* The list with x put before the first element greater than x.
RECURSIVE insort(_, _)
insort(l, x) ==
  IF l = <<>> THEN <<x>>
  ELSE IF x < Head(l) THEN <<x>> \o l
  ELSE <<Head(l)>> \o insort(Tail(l), x)

\* (mutant) the list is kept in the configured order.
sorted_list_as_is(l) == l

\* sorted(self._sorted_batch_sizes), on a list.
RECURSIVE sorted_list(_)
sorted_list(l) ==
  IF l = <<>> THEN <<>>
  ELSE insort(sorted_list(SubSeq(l, 1, Len(l) - 1)), l[Len(l)])

\* ServableMethod.__init__: an int becomes a list of one, the list is sorted.
sorted_batch_sizes_of(param) ==
  sorted_list(IF param.is_int THEN <<param.int>> ELSE param.list)

\* __init__ and then get_padded_batch_size(unpadded_batch_size).
GetPaddedBatchSize ==
  /\ method_call.op = "input"
  /\ LET sizes == sorted_batch_sizes_of(method_call.get_batch_size)
         bs == get_padded_batch_size(sizes, method_call.unpadded_batch_size)
     IN method_call' = [method_call EXCEPT
                          !.op = "get_padded_batch_size",
                          !.sorted_batch_sizes = sizes,
                          !.error = IF bs = 0 THEN "ValueError" ELSE "None",
                          !.returned = IF bs = 0 THEN <<>> ELSE <<bs>>]
  /\ UNCHANGED <<enginevars, kvvars>>

InitPadded ==
  /\ EngineIdle
  /\ q_cache = <<>>
  /\ q_src = <<>>
  /\ layer_call = <<>>
  /\ \E param \in BatchSizeParams, n \in 0 .. (MaxBatchSize + 1) :
       method_call = [op |-> "input",
                      get_batch_size |-> param,
                      unpadded_batch_size |-> n,
                      sorted_batch_sizes |-> <<>>,
                      error |-> "None",
                      returned |-> <<>>]

SpecPadded == InitPadded /\ [][GetPaddedBatchSize]_vars

\* The sizes configured, as a set.
Configured(param) ==
  IF param.is_int THEN {param.int}
  ELSE {param.list[k] : k \in DOMAIN param.list}

\* C28: for every configured batch-size value (an int, or a list in any
\* order) and every n not above the largest configured size,
\* get_padded_batch_size(n) returns the smallest configured size >= n; for
\* every n above the largest it raises ValueError and returns nothing.
C28_SmallestFittingBatchSize ==
  method_call.op = "get_padded_batch_size" =>
    LET sizes == Configured(method_call.get_batch_size)
        n == method_call.unpadded_batch_size
    IN /\ (\E b \in sizes : b >= n) =>
            /\ method_call.error = "None"
            /\ Len(method_call.returned) = 1
            /\ method_call.returned[1] \in sizes
            /\ method_call.returned[1] >= n
            /\ \A b \in sizes : b >= n => method_call.returned[1] <= b
       /\ (sizes # {} /\ \A b \in sizes : b < n) =>
            /\ method_call.error = "ValueError"
            /\ method_call.returned = <<>>

C28_Witness ==
  /\ method_call.op = "get_padded_batch_size"
  /\ method_call.get_batch_size.list = <<3, 1, 2>>
  /\ method_call.unpadded_batch_size = 2
  /\ method_call.returned = <<2>>

\* ------------------------------------ LMDecodeMethod.post_processing_stream
MaxStreamBatch == 2    \* rows of a streamed batch
MaxStreamCalls == 3    \* calls of post_processing_stream in one run
MaxScore == 1          \* scores of the compute outputs are 0 .. MaxScore

None == <<>>
Some(x) == <<x>>

\* The tokenizer's stream, as far as the method depends on it: the state
\* holds back the last id of every row, DecodeOnStream gives out the ids held
\* back and holds the new ones, FinishStream gives out what is held.
InitStream(rows) == [r \in rows |-> 0]
DecodeOnStream(new_ids, state) == <<[r \in DOMAIN new_ids |-> state[r]], new_ids>>
FinishStream(state) == state

\* self._tf_sess_first_stream_step, _tf_sess_stream_step, _tf_sess_stream_finish
_tf_sess_first_stream_step(new_ids) == DecodeOnStream(new_ids, InitStream(DOMAIN new_ids))
_tf_sess_stream_step(new_ids, state) == DecodeOnStream(new_ids, state)
_tf_sess_stream_finish(state) == FinishStream(state)

StreamResult(called, batch_decoded, scores, state) ==
  [called |-> called, error |-> "None",
   results |-> Some([r \in DOMAIN batch_decoded |-> <<batch_decoded[r], scores[r]>>]),
   stream_state |-> state]

\* (mutant) the last phase hands the stream state back.
post_processing_stream_keeps_state(compute_outputs, stream_state) ==
  IF compute_outputs = None /\ stream_state = None
    THEN [called |-> <<>>, error |-> "ValueError", results |-> None,
          stream_state |-> None]
  ELSE IF compute_outputs = None
    THEN LET batch_decoded == _tf_sess_stream_finish(stream_state[1])
         IN StreamResult(<<"FinishStream">>, batch_decoded,
                         [r \in DOMAIN batch_decoded |-> 0], stream_state)
  ELSE IF stream_state = None
    THEN LET out == _tf_sess_first_stream_step(compute_outputs[1].output_ids)
         IN StreamResult(<<"InitStream", "DecodeOnStream">>, out[1],
                         compute_outputs[1].scores, Some(out[2]))
  ELSE LET out == _tf_sess_stream_step(compute_outputs[1].output_ids,
                                      stream_state[1])
       IN StreamResult(<<"DecodeOnStream">>, out[1],
                       compute_outputs[1].scores, Some(out[2]))

\* post_processing_stream(compute_outputs, stream_state): the tokenizer
\* functions called, the (decoded, score) pairs and the stream state returned,
\* or the exception raised.
post_processing_stream(compute_outputs, stream_state) ==
  IF compute_outputs = None /\ stream_state = None
    THEN [called |-> <<>>, error |-> "ValueError", results |-> None,
          stream_state |-> None]
  ELSE IF compute_outputs = None
    THEN LET batch_decoded == _tf_sess_stream_finish(stream_state[1])
         IN StreamResult(<<"FinishStream">>, batch_decoded,
                         [r \in DOMAIN batch_decoded |-> 0], None)
  ELSE IF stream_state = None
    THEN LET out == _tf_sess_first_stream_step(compute_outputs[1].output_ids)
         IN StreamResult(<<"InitStream", "DecodeOnStream">>, out[1],
                         compute_outputs[1].scores, Some(out[2]))
  ELSE LET out == _tf_sess_stream_step(compute_outputs[1].output_ids,
                                      stream_state[1])
       IN StreamResult(<<"DecodeOnStream">>, out[1],
                       compute_outputs[1].scores, Some(out[2]))

\* The compute outputs of one streaming step for a batch of the given rows.
StreamOutputs(rows) ==
  [output_ids : [rows -> Vocab], scores : [rows -> 0 .. MaxScore]]

\* One call: the caller passes compute outputs or None, and the stream state
\* last returned to it or None.
PostProcessingStream ==
  /\ method_call.n < MaxStreamCalls
  /\ \E co \in {None} \cup {Some(c) : c \in StreamOutputs(method_call.rows)},
        st \in {None, method_call.out.stream_state} :
       method_call' = [method_call EXCEPT
                         !.op = "post_processing_stream",
                         !.n = method_call.n + 1,
                         !.compute_outputs = co,
                         !.stream_state = st,
                         !.out = post_processing_stream(co, st)]
  /\ UNCHANGED <<enginevars, kvvars>>

InitStreaming ==
  /\ EngineIdle
  /\ q_cache = <<>>
  /\ q_src = <<>>
  /\ layer_call = <<>>
  /\ \E b \in 1 .. MaxStreamBatch :
       method_call = [op |-> "input",
                      n |-> 0,
                      rows |-> 1 .. b,
                      compute_outputs |-> None,
                      stream_state |-> None,
                      out |-> [called |-> <<>>, error |-> "None",
                               results |-> None, stream_state |-> None]]

SpecStreaming == InitStreaming /\ [][PostProcessingStream]_vars

\* C29: post_processing_stream follows the three phases of a stream.  With
\* compute outputs and no stream state it initialises a new stream, decodes
\* on it and returns a stream state; with both it decodes on the state given
\* and returns the updated state; with a stream state and no compute outputs
\* it finishes the stream and returns no stream state and scores that are all
\* zero; with neither it raises ValueError and calls no tokenizer function.
C29_ThreePhaseStream ==
  method_call.op = "post_processing_stream" =>
    LET co == method_call.compute_outputs
        st == method_call.stream_state
        out == method_call.out
    IN /\ (co # None /\ st = None) =>
            /\ out.error = "None"
            /\ out.called = <<"InitStream", "DecodeOnStream">>
            /\ out.stream_state # None
            /\ \A r \in method_call.rows :
                 out.results[1][r][2] = co[1].scores[r]
       /\ (co # None /\ st # None) =>
            /\ out.error = "None"
            /\ out.called = <<"DecodeOnStream">>
            /\ out.stream_state
                 = Some(DecodeOnStream(co[1].output_ids, st[1])[2])
            /\ \A r \in method_call.rows :
                 out.results[1][r]
                   = <<DecodeOnStream(co[1].output_ids, st[1])[1][r],
                       co[1].scores[r]>>
       /\ (co = None /\ st # None) =>
            /\ out.error = "None"
            /\ out.called = <<"FinishStream">>
            /\ out.stream_state = None
            /\ \A r \in method_call.rows : out.results[1][r][2] = 0
       /\ (co = None /\ st = None) =>
            /\ out.error = "ValueError"
            /\ out.called = <<>>
            /\ out.results = None
            /\ out.stream_state = None

C29_Witness ==
  /\ method_call.op = "post_processing_stream"
  /\ method_call.n = 3
  /\ method_call.rows = 1 .. 2
  /\ method_call.compute_outputs = None
  /\ method_call.stream_state = Some([r \in 1 .. 2 |-> r])
  /\ method_call.out.called = <<"FinishStream">>
  /\ method_call.out.stream_state = None
  /\ method_call.out.results = Some([r \in 1 .. 2 |-> <<r, 0>>])

\* ----------------------- TransformerFeedForwardWithSeqSplit._compute_ffns
MaxSeqSplit == 3       \* chunked_ffn_num_seq_split
MaxSeqLen == 4         \* time dimension of the inputs
MaxFfnBatch == 2       \* batch rows of the inputs

\* The gated feed-forward network at one position: ffn_layer1_gate and
\* ffn_layer1 of the input, the padding applied, then ffn_layer2.
ffn_layer1_gate(x) == x
ffn_layer1(x) == x + 1
ffn_layer2(a) == a + 3
FfnAt(x, padding) == ffn_layer2((ffn_layer1_gate(x) * ffn_layer1(x)) * (1 - padding))

\* (mutant) the loop goes on while some row's right-most position is unpadded.
cond_fn_some_row(i, paddings, chunk_size, t) ==
  LET end == (i + 1) * chunk_size - 1
      at == IF end < 0 THEN end + t ELSE end
  IN /\ i >= 0
     /\ \E b \in DOMAIN paddings : paddings[b][at] = 0

\* cond_fn: val.i >= 0 and no row is padded at the chunk's right-most
\* position (end = -1 reads the last position).
cond_fn(i, paddings, chunk_size, t) ==
  LET end == (i + 1) * chunk_size - 1
      at == IF end < 0 THEN end + t ELSE end
  IN /\ i >= 0
     /\ SumOver([b \in DOMAIN paddings |-> paddings[b][at]], DOMAIN paddings) = 0

\* loop_body: the chunk at start = i * chunk_size is replaced by its FFN
\* output.
loop_body(inputs, i, paddings, chunk_size) ==
  LET start == i * chunk_size
  IN [b \in DOMAIN inputs |->
       [p \in DOMAIN inputs[b] |->
          IF start <= p /\ p < start + chunk_size
            THEN FfnAt(inputs[b][p], paddings[b][p])
            ELSE inputs[b][p]]]

\* super()._compute_ffns: the network at every position.
compute_ffns_unsplit(inputs, paddings) ==
  [b \in DOMAIN inputs |->
     [p \in DOMAIN inputs[b] |-> FfnAt(inputs[b][p], paddings[b][p])]]

Unsplit(c) == (~c.do_eval) \/ c.num_seq_split = 1 \/ c.t < c.num_seq_split

\* _compute_ffns up to the loop.
ComputeFfns ==
  /\ layer_call.op = "input"
  /\ layer_call' =
       IF Unsplit(layer_call)
         THEN [layer_call EXCEPT
                 !.op = "returned",
                 !.inputs = compute_ffns_unsplit(layer_call.inputs, layer_call.paddings)]
       ELSE IF layer_call.t % layer_call.num_seq_split # 0
         THEN [layer_call EXCEPT !.op = "raised", !.error = "AssertionError"]
       ELSE [layer_call EXCEPT
               !.op = "while_loop",
               !.chunk_size = layer_call.t \div layer_call.num_seq_split,
               !.i = layer_call.num_seq_split - 1]
  /\ UNCHANGED <<enginevars, q_cache, q_src, method_call>>

\* One iteration of nn.while_loop(cond_fn, loop_body, self, val).
WhileLoopBody ==
  /\ layer_call.op = "while_loop"
  /\ cond_fn(layer_call.i, layer_call.paddings, layer_call.chunk_size, layer_call.t)
  /\ layer_call' =
       [layer_call EXCEPT
          !.inputs = loop_body(layer_call.inputs, layer_call.i,
                               layer_call.paddings, layer_call.chunk_size),
          !.i = layer_call.i - 1,
          !.iterations = layer_call.iterations + 1]
  /\ UNCHANGED <<enginevars, q_cache, q_src, method_call>>

\* The loop ends when cond_fn is false: return val.inputs.
WhileLoopExit ==
  /\ layer_call.op = "while_loop"
  /\ ~cond_fn(layer_call.i, layer_call.paddings, layer_call.chunk_size, layer_call.t)
  /\ layer_call' = [layer_call EXCEPT !.op = "returned"]
  /\ UNCHANGED <<enginevars, q_cache, q_src, method_call>>

NextFfn ==
  \/ ComputeFfns
  \/ WhileLoopBody
  \/ WhileLoopExit

InitFfn ==
  /\ EngineIdle
  /\ q_cache = <<>>
  /\ q_src = <<>>
  /\ method_call = <<>>
  /\ \E t \in 1 .. MaxSeqLen, n \in 1 .. MaxSeqSplit, bsz \in 1 .. MaxFfnBatch, do_eval \in BOOLEAN :
       \E paddings \in [1 .. bsz -> [0 .. (t - 1) -> {0, 1}]], shift \in {0, 1} :
         layer_call = [op |-> "input",
                       do_eval |-> do_eval,
                       num_seq_split |-> n,
                       t |-> t,
                       chunk_size |-> 0,
                       given |-> [b \in 1 .. bsz |-> [p \in 0 .. (t - 1) |-> 1 + ((b + p + shift) % 2)]],
                       inputs |-> [b \in 1 .. bsz |-> [p \in 0 .. (t - 1) |-> 1 + ((b + p + shift) % 2)]],
                       paddings |-> paddings,
                       i |-> 0,
                       iterations |-> 0,
                       error |-> "None"]

\* The call runs to its end: the loop is one device computation.
SpecFfn == InitFfn /\ [][NextFfn]_vars /\ WF_vars(NextFfn)

\* Chunk c of the call, and whether its right-most position is padded in
\* some row.
ChunkOf(c) == (c * layer_call.chunk_size) .. ((c + 1) * layer_call.chunk_size - 1)
RightmostPadded(c) ==
  \E b \in DOMAIN layer_call.paddings :
    layer_call.paddings[b][(c + 1) * layer_call.chunk_size - 1] = 1
Split == layer_call.op \in {"while_loop", "returned"} /\ ~Unsplit(layer_call)

\* C30: on the split path _compute_ffns ends after at most N =
\* chunked_ffn_num_seq_split iterations whatever the paddings; it takes the
\* chunks from chunk N - 1 leftwards, one per iteration, and stops at the
\* first chunk whose right-most position is padded in at least one row; every
\* chunk taken holds the FFN output and every position of the chunks not
\* taken holds the input.
C30_ChunksRightToLeft ==
  /\ [](Split =>
          LET n == layer_call.num_seq_split
              k == layer_call.iterations
              taken == (n - k) .. (n - 1)
          IN /\ k <= n
             /\ layer_call.i = n - 1 - k
             /\ \A c \in taken : ~RightmostPadded(c)
             /\ \A b \in DOMAIN layer_call.inputs : \A c \in 0 .. (n - 1) :
                  \A p \in ChunkOf(c) :
                    layer_call.inputs[b][p] =
                      IF c \in taken
                        THEN FfnAt(layer_call.given[b][p], layer_call.paddings[b][p])
                        ELSE layer_call.given[b][p]
             /\ (layer_call.op = "returned" /\ k < n) => RightmostPadded(n - 1 - k))
  /\ [][(layer_call.op = "while_loop" /\ layer_call'.op = "while_loop") =>
          /\ layer_call'.i = layer_call.i - 1
          /\ layer_call'.iterations = layer_call.iterations + 1]_vars
  /\ <>(layer_call.op \in {"returned", "raised"})

C30_Witness ==
  /\ layer_call.op = "returned"
  /\ layer_call.num_seq_split = 2
  /\ layer_call.t = 4
  /\ layer_call.iterations = 1
  /\ layer_call.do_eval
  /\ layer_call.paddings = [b \in 1 .. 2 |-> [p \in 0 .. 3 |-> IF p <= b - 1 THEN 1 ELSE 0]]
  /\ \A p \in 0 .. 1 : layer_call.inputs[1][p] = layer_call.given[1][p]
  /\ \A p \in 2 .. 3 : layer_call.inputs[1][p] # layer_call.given[1][p]
====
